---- MODULE Spec2Model ----
(***************************************************************************)
(* Chefly: the recipe generation pipeline (handlers.RecipeHandler,          *)
(* services.ClaudeService, services.OpenAIService) and its quota gate.      *)
(*                                                                          *)
(* Strings that the code inspects character by character (the global limit  *)
(* setting, the provider's reply) are sequences of one-character strings.   *)
(***************************************************************************)
EXTENDS Integers, Sequences, FiniteSets, TLC

VARIABLES
    auditEnabled,           \* AuditLogger.enabled
    recipeGenerationLimit,  \* RecipeHandler.recipeGenerationLimit (config string)
    recipe_limit,           \* users.recipe_limit, per user, a sql.NullInt64
    recipes,                \* the recipes table: a set of rows
    reqs,                   \* per handler slot, the locals of its GenerateRecipe request
    arrived,                \* the number of GenerateRecipe requests received
    generated,              \* per user, the number of recipe rows ever inserted
    lookupFailed,           \* whether a lookup of the quota gate has failed so far
    deleted,                \* the response a DeleteRecipe request has just written
    gate,                   \* the last stand-alone call of canGenerateRecipe
    parseCall,              \* the last stand-alone call of parseRecipeResponse
    quantity,               \* the last conversion of an ingredient's quantity
    classified,             \* the stand-alone calls of ClaudeService.GenerateRecipe
    prompt,                 \* the last stand-alone call of buildRecipePrompt
    files,                  \* the image files that exist under the uploads directory
    media,                  \* the last call of the image optimizer or of the cleanup service
    users,                  \* the users table: a sequence of rows in insertion order
    regs,                   \* per handler slot, the locals of its Register request
    registrationEnabled,    \* AuthHandler.registrationEnabled
    items,                  \* the shopping_list_items table
    served,                 \* the last response of a recipe or shopping-list handler
    refresh_tokens,         \* the refresh_tokens table
    refreshes,              \* per handler slot, the locals of its RefreshToken or Logout request
    limitCall,              \* the last UpdateUserRecipeLimit request
    client                  \* the API client of the frontend

vars == <<auditEnabled, recipeGenerationLimit, recipe_limit, recipes, reqs,
          arrived, generated, lookupFailed, deleted, gate,
          parseCall, quantity, classified, prompt, files, media, users, regs,
          registrationEnabled, items, served, refresh_tokens, refreshes,
          limitCall, client>>

parserVars == <<parseCall, quantity, classified, prompt>>

mediaVars == <<files, media>>

authVars == <<users, regs, registrationEnabled>>

listVars == <<items, served>>

tokenVars == <<refresh_tokens, refreshes>>

adminVars == <<limitCall>>

clientVars == <<client>>

----------------------------------------------------------------------------
(* Bounds of the model *)

\* largest per-user recipe_limit stored in the users table
MaxLimit == 2
\* largest number of recipe rows a user starts with
MaxCount == 3
\* longest global limit string that is enumerated character by character
MaxGlobalLen == 2
\* number of GenerateRecipe requests received in one behaviour
MaxReq == 2

Users == {"u1", "u2"}

\* The handler slots: two requests are served at a time, and a slot whose
\* request has been answered serves the next one.
Reqs == {1, 2}

----------------------------------------------------------------------------
(* HTTP status codes used by the handlers *)

StatusCreated == 201
StatusOK == 200
StatusBadRequest == 400
StatusUnauthorized == 401
StatusForbidden == 403
StatusNotFound == 404
StatusConflict == 409
StatusTooManyRequests == 429
StatusInternalServerError == 500
StatusServiceUnavailable == 503

----------------------------------------------------------------------------
(* Audit events *)

\* One structured event: its type, the metadata keys it carries, and the
\* values of the keys the properties read ("" and 0 when the key is absent).
NoEvent ==
    [event_type |-> "", keys |-> {}, meat_type |-> "", cuisine_type |-> "",
     difficulty |-> "", recipe_id |-> 0, status_code |-> 0]

Event(type, keys) == [NoEvent EXCEPT !.event_type = type, !.keys = keys]

\* AuditLogger.Info / Warn / Error: nothing is written when the logger is
\* disabled.  The result is the sequence of events written by one call.
Log(ev) == IF auditEnabled THEN <<ev>> ELSE <<>>

----------------------------------------------------------------------------
(* strconv.Atoi on a sequence of characters *)

DigitChars == {"0", "1", "2", "3", "4", "5", "6", "7", "8", "9"}

DigitVal(c) ==
    CASE c = "0" -> 0 [] c = "1" -> 1 [] c = "2" -> 2 [] c = "3" -> 3
      [] c = "4" -> 4 [] c = "5" -> 5 [] c = "6" -> 6 [] c = "7" -> 7
      [] c = "8" -> 8 [] c = "9" -> 9

RECURSIVE DecimalValue(_)
DecimalValue(s) ==
    IF s = <<>> THEN 0
    ELSE DecimalValue(SubSeq(s, 1, Len(s) - 1)) * 10 + DigitVal(s[Len(s)])

\* An optional sign, then at least one digit and nothing but digits.
Atoi(s) ==
    IF s = <<>> THEN [err |-> TRUE, val |-> 0]
    ELSE
        LET signed == s[1] \in {"-", "+"}
            body == IF signed THEN Tail(s) ELSE s
        IN  IF body = <<>> \/ \E i \in 1..Len(body) : body[i] \notin DigitChars
            THEN [err |-> TRUE, val |-> 0]
            ELSE [err |-> FALSE,
                  val |-> IF s[1] = "-" THEN 0 - DecimalValue(body)
                          ELSE DecimalValue(body)]

Unlimited == <<"u", "n", "l", "i", "m", "i", "t", "e", "d">>

----------------------------------------------------------------------------
(* The quota gate: RecipeHandler.canGenerateRecipe *)

\* sql.NullInt64
NullInt64(valid, n) == [Valid |-> valid, Int64 |-> n]
SqlNull == NullInt64(FALSE, 0)

\* Mutant of RecipeCount: the WHERE clause selects the user's favourites only.
RecipeCount_OnlyFavorites(u) ==
    Cardinality({row \in recipes : row.user_id = u /\ row.is_favorite})

\* SELECT COUNT(*) FROM recipes WHERE user_id = ?
RecipeCount(u) == Cardinality({row \in recipes : row.user_id = u})

\* "Determine effective limit": unlimited says that the gate returns true at
\* once, otherwise effectiveLimit is the limit in force (hasLimit is true on
\* every path that reaches the checks below it).
EffectiveLimit(recipeLimit, globalLimit) ==
    IF recipeLimit.Valid
    THEN [unlimited |-> recipeLimit.Int64 = -1,
          effectiveLimit |-> recipeLimit.Int64]
    ELSE IF globalLimit = Unlimited \/ globalLimit = <<>>
    THEN [unlimited |-> TRUE, effectiveLimit |-> 0]
    ELSE LET parsed == Atoi(globalLimit)
         IN  IF parsed.err THEN [unlimited |-> TRUE, effectiveLimit |-> 0]
             ELSE [unlimited |-> FALSE, effectiveLimit |-> parsed.val]

\* The first half of canGenerateRecipe: the recipe_limit lookup, the
\* effective limit and the "limit is 0" check.  decided says whether the gate
\* has returned already; otherwise the count query follows.
ResolveLimit(lookupErr, recipeLimit, globalLimit) ==
    LET out(decided, allow, eff, events) ==
            [decided |-> decided, allow |-> allow,
             effectiveLimit |-> eff, events |-> events]
        lim == EffectiveLimit(recipeLimit, globalLimit)
    IN  IF lookupErr
        THEN out(TRUE, TRUE, 0,
                 Log(Event("recipe.limit_check_failed", {})))
        ELSE IF lim.unlimited THEN out(TRUE, TRUE, 0, <<>>)
        ELSE IF lim.effectiveLimit = 0
        THEN out(TRUE, FALSE, 0,
                 Log(Event("recipe.limit_blocked",
                           {"effective_limit", "has_personal_limit"})))
        ELSE out(FALSE, FALSE, lim.effectiveLimit, <<>>)

\* Mutant of CheckCount: the comparison is > instead of >=.
CheckCount_OffByOne(countErr, recipeCount, effectiveLimit) ==
    IF countErr THEN [allow |-> TRUE, events |-> <<>>]
    ELSE IF recipeCount > effectiveLimit
    THEN [allow |-> FALSE,
          events |-> Log(Event("recipe.limit_reached",
                               {"current_count", "effective_limit",
                                "has_personal_limit"}))]
    ELSE [allow |-> TRUE, events |-> <<>>]

\* The second half of canGenerateRecipe: the count query and the comparison.
CheckCount(countErr, recipeCount, effectiveLimit) ==
    IF countErr THEN [allow |-> TRUE, events |-> <<>>]
    ELSE IF recipeCount >= effectiveLimit
    THEN [allow |-> FALSE,
          events |-> Log(Event("recipe.limit_reached",
                               {"current_count", "effective_limit",
                                "has_personal_limit"}))]
    ELSE [allow |-> TRUE, events |-> <<>>]

\* canGenerateRecipe as one call: both lookups and the verdict.
canGenerateRecipe(u, lookupErr, countErr) ==
    LET first == ResolveLimit(lookupErr, recipe_limit[u], recipeGenerationLimit)
    IN  IF first.decided
        THEN [allow |-> first.allow, events |-> first.events]
        ELSE LET second == CheckCount(countErr, RecipeCount(u), first.effectiveLimit)
             IN  [allow |-> second.allow,
                  events |-> first.events \o second.events]

----------------------------------------------------------------------------
(* The text step: ClaudeService.GenerateRecipe and parseRecipeResponse *)

\* The decimal digits of a natural number
RECURSIVE IntString(_)
IntString(n) ==
    IF n < 10 THEN <<CHOOSE c \in DigitChars : DigitVal(c) = n>>
    ELSE Append(IntString(n \div 10),
                CHOOSE c \in DigitChars : DigitVal(c) = n % 10)

RECURSIVE Pow10(_)
Pow10(k) == IF k = 0 THEN 1 ELSE 10 * Pow10(k - 1)

\* The place of the decimal point in a literal, 0 when it has none
PointAt(lit) ==
    IF \E i \in 1..Len(lit) : lit[i] = "."
    THEN CHOOSE i \in 1..Len(lit) : lit[i] = "."
    ELSE 0

\* A JSON number without sign or exponent: digits, then optionally a point
\* and digits; no leading zero before another digit.
ValidNumber(lit) ==
    LET pt == PointAt(lit)
        whole == IF pt = 0 THEN lit ELSE SubSeq(lit, 1, pt - 1)
        frac == IF pt = 0 THEN <<>> ELSE SubSeq(lit, pt + 1, Len(lit))
    IN  /\ whole # <<>>
        /\ \A i \in 1..Len(whole) : whole[i] \in DigitChars
        /\ \A i \in 1..Len(frac) : frac[i] \in DigitChars
        /\ pt # 0 => frac # <<>>
        /\ Len(whole) > 1 => whole[1] # "0"

\* fmt.Sprintf("%.0f", q) of the float64 read from the literal: the nearest
\* integer, a tie going to the even one.
FormatF0(lit) ==
    LET pt == PointAt(lit)
        whole == IF pt = 0 THEN lit ELSE SubSeq(lit, 1, pt - 1)
        frac == IF pt = 0 THEN <<>> ELSE SubSeq(lit, pt + 1, Len(lit))
        n == DecimalValue(whole)
        twice == 2 * DecimalValue(frac)
        one == Pow10(Len(frac))
    IN  IntString(IF twice > one THEN n + 1
                  ELSE IF twice < one THEN n
                  ELSE IF n % 2 = 0 THEN n ELSE n + 1)

\* The json.RawMessage of a quantity member: a JSON string or a JSON number
RawQuantity(kind, lit) == [kind |-> kind, lit |-> lit]

\* The quantity of an Ingredient: the raw value is read as a string, and if
\* that fails as a float64 that is printed with no decimals; "" otherwise.
NormalizeQuantity(raw) ==
    IF raw.lit = <<>> /\ raw.kind # "string" THEN <<>>
    ELSE IF raw.kind = "string" THEN raw.lit
    ELSE IF raw.kind = "number" /\ ValidNumber(raw.lit) THEN FormatF0(raw.lit)
    ELSE <<>>

\* The provider's reply is a sequence of tokens: the two braces, "p" for a
\* character of prose, and one token per member of the payload object
\* ("t" title, "i" a one-element ingredients list, "s" a one-element steps
\* list, "m" the meat_type, cuisine_type and difficulty members).
MemberTokens == {"t", "i", "s", "m"}

\* strings.Index and strings.LastIndex, 0-based, -1 when absent
Index(s, c) ==
    IF \E i \in 1..Len(s) : s[i] = c
    THEN (CHOOSE i \in 1..Len(s) : s[i] = c /\ \A j \in 1..(i - 1) : s[j] # c) - 1
    ELSE -1

\* Mutant of LastIndex: the first occurrence is returned.
LastIndex_First(s, c) == Index(s, c)

LastIndex(s, c) ==
    IF \E i \in 1..Len(s) : s[i] = c
    THEN (CHOOSE i \in 1..Len(s) : s[i] = c /\ \A j \in (i + 1)..Len(s) : s[j] # c) - 1
    ELSE -1

\* models.RecipeDetail
NoRecipe ==
    [ID |-> 0, UserID |-> "", Title |-> "", Ingredients |-> <<>>,
     Steps |-> <<>>, MeatType |-> "", CuisineType |-> "", Difficulty |-> "",
     DietaryTags |-> <<>>, ImagePath |-> ""]

\* json.Unmarshal of the isolated payload into the temporary structure: the
\* text must be one object whose members are known members; a member that
\* is absent leaves the zero value.
DecodeOK(jsonStr) ==
    /\ Len(jsonStr) >= 2
    /\ jsonStr[1] = "{"
    /\ jsonStr[Len(jsonStr)] = "}"
    /\ \A i \in 2..(Len(jsonStr) - 1) : jsonStr[i] \in MemberTokens

Decoded(jsonStr, req) ==
    LET has(c) == \E i \in 1..Len(jsonStr) : jsonStr[i] = c
    IN  [NoRecipe EXCEPT
            !.Title = IF has("t") THEN "Lemon Chicken" ELSE "",
            !.Ingredients =
                IF has("i")
                THEN <<[Name |-> "chicken",
                        Quantity |-> NormalizeQuantity(
                                        RawQuantity("string", <<"5", "0", "0">>)),
                        Unit |-> "g"]>>
                ELSE <<>>,
            !.Steps =
                IF has("s")
                THEN <<[StepNumber |-> 1, Instruction |-> "roast"]>>
                ELSE <<>>,
            !.MeatType = IF has("m") THEN "Chicken" ELSE "",
            !.CuisineType = IF has("m") THEN "Italian" ELSE "",
            !.Difficulty = IF has("m") THEN "easy" ELSE "",
            !.DietaryTags = req.DietaryPreferences]

\* parseRecipeResponse: err is "" on success; panic is the out-of-range
\* slice response[jsonStart : jsonEnd+1] of a text whose last "}" lies more
\* than one place before its first "{".
parseRecipeResponse(response, req) ==
    LET jsonStart == Index(response, "{")
        jsonEnd == LastIndex(response, "}")
        out(err, panic, recipe) ==
            [err |-> err, panic |-> panic, recipe |-> recipe]
    IN  IF jsonStart = -1 \/ jsonEnd = -1
        THEN out("ErrInvalidJSON", FALSE, NoRecipe)
        ELSE IF jsonStart > jsonEnd + 1
        THEN out("", TRUE, NoRecipe)
        ELSE LET jsonStr == SubSeq(response, jsonStart + 1, jsonEnd + 1)
             IN  IF ~DecodeOK(jsonStr)
                 THEN out("failed to parse JSON", FALSE, NoRecipe)
                 ELSE out("", FALSE, Decoded(jsonStr, req))

\* What the provider does with one call: a transport error whose text
\* errText carries a rate-limit signal and/or a model signal, or a reply
\* text.
ProviderOutcome(failed, rate, model, errText, text) ==
    [failed |-> failed, rate |-> rate, model |-> model, errText |-> errText,
     text |-> text]

\* ClaudeService.GenerateRecipe: the call, the classification of its error,
\* the empty-reply check and the parse.
ClaudeGenerateRecipe(req, outcome) ==
    LET out(err, panic, recipe) ==
            [err |-> err, panic |-> panic, recipe |-> recipe,
             detail |-> IF outcome.failed THEN outcome.errText ELSE ""]
    IN  IF outcome.failed
        THEN IF outcome.rate THEN out("ErrRateLimit", FALSE, NoRecipe)
             ELSE IF outcome.model THEN out("ErrAPIConnection", FALSE, NoRecipe)
             ELSE out("ErrAPIConnection", FALSE, NoRecipe)
        ELSE IF outcome.text = <<>>
        THEN out("ErrEmptyResponse", FALSE, NoRecipe)
        ELSE LET parsed == parseRecipeResponse(outcome.text, req)
             IN  IF parsed.panic THEN out("", TRUE, NoRecipe)
                 ELSE IF parsed.err = "ErrInvalidJSON"
                 THEN out("ErrInvalidJSON", FALSE, NoRecipe)
                 ELSE IF parsed.err # ""
                 THEN out("ErrParsingFailed", FALSE, NoRecipe)
                 ELSE out("", FALSE, parsed.recipe)

\* The handler's choice of message and status for an error of the text step
ErrorMessage(err) ==
    CASE err = "ErrRateLimit" ->
            "Rate limit reached. Please wait a moment before generating another recipe."
      [] err = "ErrEmptyResponse" ->
            "AI service returned an empty response. Please try again."
      [] err = "ErrInvalidJSON" ->
            "Failed to parse AI response. The service may be experiencing issues. Please try again."
      [] err = "ErrParsingFailed" ->
            "Failed to process AI response. Please try again with different settings."
      [] err = "ErrAPIConnection" ->
            "AI service is temporarily unavailable. Please check your connection and try again."
      [] OTHER -> "Failed to generate recipe. Please try again."

ErrorStatus(err) ==
    CASE err = "ErrRateLimit" -> StatusTooManyRequests
      [] err = "ErrAPIConnection" -> StatusServiceUnavailable
      [] OTHER -> StatusInternalServerError

----------------------------------------------------------------------------
(* The image step: OpenAIService.GenerateFoodImage *)

\* What the image provider and the download do
ImageOutcomes == {"api_error", "no_data", "downloaded", "download_failed"}

GenerateFoodImage(outcome) ==
    CASE outcome = "api_error" -> [path |-> "", err |-> TRUE]
      [] outcome = "no_data" -> [path |-> "", err |-> TRUE]
      [] outcome = "downloaded" ->
            [path |-> "data:image/png;base64", err |-> FALSE]
      [] outcome = "download_failed" ->
            [path |-> "https://provider/image", err |-> FALSE]

----------------------------------------------------------------------------
(* One GenerateRecipe request *)

\* models.RecipeGenerationRequest as bound by ShouldBindJSON; valid is false
\* for a body that does not bind.
Body(valid, meat, cuisine, difficulty, dietary) ==
    [valid |-> valid, MeatType |-> meat, CuisineType |-> cuisine,
     Difficulty |-> difficulty, DietaryPreferences |-> dietary]

Bodies ==
    { Body(TRUE, "Beef", "Thai", "hard", <<"keto">>),
      Body(FALSE, "", "", "", <<>>) }

\* The replies a provider call can return in a request
ProviderReplies ==
    { <<>>,
      <<"p">>,
      <<"{", "p", "}">>,
      <<"}", "p", "{">>,
      <<"{", "}">>,
      <<"{", "t", "i", "s", "m", "}">>,
      <<"p", "{", "t", "i", "s", "m", "}", "p">> }

\* The texts of the provider's own errors
ProviderErrors == {"upstream 529 overloaded", "dial tcp: connection refused"}

ProviderOutcomes ==
    { ProviderOutcome(TRUE, rate, model, errText, <<>>) :
            rate \in BOOLEAN, model \in BOOLEAN, errText \in ProviderErrors }
    \cup { ProviderOutcome(FALSE, FALSE, FALSE, "", text) : text \in ProviderReplies }

\* The locals of a request that has not arrived yet
IdleReq ==
    [pc |-> "idle", no |-> 0, user |-> "", body |-> Body(FALSE, "", "", "", <<>>),
     effectiveLimit |-> 0, gate |-> "none", lookupErr |-> FALSE,
     textErr |-> "", errDetail |-> "", panicked |-> FALSE, imageFailed |-> FALSE,
     draft |-> NoRecipe, recipe |-> NoRecipe, status |-> 0, error |-> "",
     textCalls |-> 0, imageCalls |-> 0, inserts |-> 0, events |-> <<>>]

InFlight(r) == reqs[r].pc \notin {"idle", "done"}

\* A new request is served by the first slot that is free.
FreeSlot(r) == ~InFlight(r) /\ \A q \in Reqs : q < r => InFlight(q)

NoDelete == [user |-> "", id |-> 0, status |-> 0, events |-> <<>>]

\* No recipe or shopping-list handler has answered.
NoServed ==
    [op |-> "none", user |-> "", id |-> 0, status |-> 0, recipes |-> {},
     items |-> {}, events |-> <<>>]

\* AuditMiddleware: after the handler has returned, one api.request event
\* with the status written.
MiddlewareEvent(status) ==
    Log([Event("api.request", {}) EXCEPT !.status_code = status])

\* The handler writes an error response and returns.
Respond(rq, status, error, events) ==
    [rq EXCEPT !.pc = "done", !.status = status, !.error = error,
               !.events = rq.events \o events \o MiddlewareEvent(status)]

\* What follows a gate that allowed the request: the body is bound and the
\* start of the generation is logged.
Admitted(rq) ==
    IF ~rq.body.valid
    THEN Respond([rq EXCEPT !.gate = "allow"], StatusBadRequest,
                 "Invalid request data", <<>>)
    ELSE [rq EXCEPT
            !.gate = "allow",
            !.pc = "text",
            !.events = rq.events \o
                Log([Event("recipe.generate_start",
                           {"meat_type", "cuisine_type", "difficulty"})
                     EXCEPT !.meat_type = rq.body.MeatType,
                            !.cuisine_type = rq.body.CuisineType,
                            !.difficulty = rq.body.Difficulty])]

\* Mutant of Denied: the 403 is written but the handler does not return.
Denied_NoReturn(rq) == [Admitted(rq) EXCEPT !.gate = "deny"]

\* What follows a gate that denied the request
Denied(rq) ==
    Respond([rq EXCEPT !.gate = "deny"], StatusForbidden,
            "Recipe generation limit reached", <<>>)

\* A request of user u arrives; canGenerateRecipe reads the user's
\* recipe_limit and resolves the effective limit.
GateLimit(r, u, body, lookupErr) ==
    /\ FreeSlot(r)
    /\ arrived' = arrived + 1
    /\ deleted' = NoDelete
    /\ LET first == ResolveLimit(lookupErr, recipe_limit[u], recipeGenerationLimit)
           rq == [IdleReq EXCEPT !.no = arrived + 1,
                                 !.user = u, !.body = body,
                                 !.lookupErr = lookupErr,
                                 !.effectiveLimit = first.effectiveLimit,
                                 !.events = first.events]
       IN  reqs' = [reqs EXCEPT ![r] =
                IF ~first.decided THEN [rq EXCEPT !.pc = "gate_count"]
                ELSE IF first.allow THEN Admitted(rq)
                ELSE Denied(rq)]
    /\ lookupFailed' = (lookupFailed \/ lookupErr)
    /\ UNCHANGED <<auditEnabled, recipeGenerationLimit, recipe_limit, recipes,
                   generated, gate,
                   parserVars, mediaVars, authVars,
                   listVars, tokenVars, adminVars, clientVars>>

\* canGenerateRecipe counts the user's recipes and compares.
GateCount(r, countErr) ==
    /\ reqs[r].pc = "gate_count"
    /\ LET second == CheckCount(countErr, RecipeCount(reqs[r].user),
                                reqs[r].effectiveLimit)
           rq == [reqs[r] EXCEPT !.lookupErr = countErr,
                                 !.events = reqs[r].events \o second.events]
       IN  reqs' = [reqs EXCEPT ![r] =
                IF second.allow THEN Admitted(rq) ELSE Denied(rq)]
    /\ lookupFailed' = (lookupFailed \/ countErr)
    /\ deleted' = NoDelete
    /\ UNCHANGED <<auditEnabled, recipeGenerationLimit, recipe_limit, recipes,
                   arrived, generated, gate,
                   parserVars, mediaVars, authVars,
                   listVars, tokenVars, adminVars, clientVars>>

\* Mutant of TextFailed: the error is logged but the handler goes on to the
\* image step with the empty recipe.
TextFailed_NoReturn(rq, err) ==
    [rq EXCEPT !.textErr = err, !.pc = "image",
               !.events = rq.events \o
                   Log([Event("recipe.generate_failure", {"error_type", "meat_type"})
                        EXCEPT !.meat_type = rq.body.MeatType])]

\* The failure branch of the handler after claudeService.GenerateRecipe
TextFailed(rq, err) ==
    Respond([rq EXCEPT !.textErr = err], ErrorStatus(err), ErrorMessage(err),
            Log([Event("recipe.generate_failure", {"error_type", "meat_type"})
                 EXCEPT !.meat_type = rq.body.MeatType]))

\* A panic in the handler: gin.Recovery answers 500 and the rest of the
\* handler and of AuditMiddleware does not run.
Panicked(rq) ==
    [rq EXCEPT !.pc = "done", !.panicked = TRUE,
               !.status = StatusInternalServerError]

\* claudeService.GenerateRecipe(req) and the handler's error branch
TextCall(r, outcome) ==
    /\ reqs[r].pc = "text"
    /\ LET res == ClaudeGenerateRecipe(reqs[r].body, outcome)
           rq == [reqs[r] EXCEPT !.textCalls = @ + 1, !.errDetail = res.detail]
       IN  reqs' = [reqs EXCEPT ![r] =
                IF res.panic THEN Panicked(rq)
                ELSE IF res.err # "" THEN TextFailed(rq, res.err)
                ELSE [rq EXCEPT !.pc = "image", !.draft = res.recipe,
                                !.recipe = res.recipe]]
    /\ deleted' = NoDelete
    /\ UNCHANGED <<auditEnabled, recipeGenerationLimit, recipe_limit, recipes,
                   arrived, generated, lookupFailed, gate,
                   parserVars, mediaVars, authVars,
                   listVars, tokenVars, adminVars, clientVars>>

\* Mutant of WithImage: an image error fails the request.
WithImage_Fatal(rq, res) ==
    IF res.err
    THEN Respond([rq EXCEPT !.imageFailed = TRUE], StatusInternalServerError,
                 "Failed to generate image", <<>>)
    ELSE [rq EXCEPT !.pc = "insert", !.recipe.ImagePath = res.path]

\* The handler after GenerateFoodImage: an error is printed as a warning
\* and the recipe goes on without an image.
WithImage(rq, res) ==
    [rq EXCEPT !.pc = "insert",
               !.imageFailed = res.err,
               !.recipe.ImagePath = IF res.err THEN "" ELSE res.path]

\* openaiService.GenerateFoodImage and the fallback to no image
ImageCall(r, outcome) ==
    /\ reqs[r].pc = "image"
    /\ reqs' = [reqs EXCEPT ![r] =
            WithImage([@ EXCEPT !.imageCalls = @ + 1], GenerateFoodImage(outcome))]
    /\ deleted' = NoDelete
    /\ UNCHANGED <<auditEnabled, recipeGenerationLimit, recipe_limit, recipes,
                   arrived, generated, lookupFailed, gate,
                   parserVars, mediaVars, authVars,
                   listVars, tokenVars, adminVars, clientVars>>

\* Mutant of RecipeRow: the id is bound to the user_id column as well.
RecipeRow_WrongOwner(recipe) ==
    [id |-> recipe.ID, user_id |-> "", title |-> recipe.Title,
     ingredients |-> recipe.Ingredients, steps |-> recipe.Steps,
     difficulty |-> recipe.Difficulty, cuisine_type |-> recipe.CuisineType,
     meat_type |-> recipe.MeatType, dietary_tags |-> recipe.DietaryTags,
     is_favorite |-> FALSE, image_path |-> recipe.ImagePath]

\* The row written by the INSERT; is_favorite is the literal 0
RecipeRow(recipe) ==
    [id |-> recipe.ID, user_id |-> recipe.UserID, title |-> recipe.Title,
     ingredients |-> recipe.Ingredients, steps |-> recipe.Steps,
     difficulty |-> recipe.Difficulty, cuisine_type |-> recipe.CuisineType,
     meat_type |-> recipe.MeatType, dietary_tags |-> recipe.DietaryTags,
     is_favorite |-> FALSE, image_path |-> recipe.ImagePath]

\* uuid.New(): an identifier no other request draws
NewRecipeID(rq) == rq.no

\* Mutant of Saved: the success is answered but not logged.
Saved_Silent(rq) ==
    Respond([rq EXCEPT !.inserts = @ + 1], StatusCreated, "", <<>>)

\* The success branch after the INSERT
Saved(rq) ==
    Respond([rq EXCEPT !.inserts = @ + 1], StatusCreated, "",
            Log([Event("recipe.generate_success",
                       {"recipe_id", "recipe_title", "meat_type",
                        "cuisine_type", "difficulty"})
                 EXCEPT !.recipe_id = rq.recipe.ID,
                        !.meat_type = rq.recipe.MeatType,
                        !.cuisine_type = rq.recipe.CuisineType,
                        !.difficulty = rq.recipe.Difficulty]))

\* Mutant of InsertRecipe: the row is written although db.Exec reports an
\* error, so the request answers 500 with the recipe stored.
InsertRecipe_LateError(r, execErr) ==
    /\ reqs[r].pc = "insert"
    /\ LET rq == [reqs[r] EXCEPT !.recipe.ID = NewRecipeID(reqs[r]),
                                 !.recipe.UserID = reqs[r].user]
       IN  /\ recipes' = recipes \cup {RecipeRow(rq.recipe)}
           /\ generated' = [generated EXCEPT ![rq.user] = @ + 1]
           /\ reqs' = [reqs EXCEPT ![r] =
                   IF execErr
                   THEN Respond(rq, StatusInternalServerError,
                                "Failed to save recipe", <<>>)
                   ELSE Saved(rq)]
    /\ deleted' = NoDelete
    /\ UNCHANGED <<auditEnabled, recipeGenerationLimit, recipe_limit,
                   arrived, lookupFailed, gate,
                   parserVars, mediaVars, authVars,
                   listVars, tokenVars, adminVars, clientVars>>

\* The recipe gets its id and owner and is inserted; execErr is a failure
\* of db.Exec, which writes nothing.
InsertRecipe(r, execErr) ==
    /\ reqs[r].pc = "insert"
    /\ LET rq == [reqs[r] EXCEPT !.recipe.ID = NewRecipeID(reqs[r]),
                                 !.recipe.UserID = reqs[r].user]
       IN  IF execErr
           THEN /\ reqs' = [reqs EXCEPT ![r] =
                        Respond(rq, StatusInternalServerError,
                                "Failed to save recipe", <<>>)]
                /\ UNCHANGED <<recipes, generated>>
           ELSE /\ recipes' = recipes \cup {RecipeRow(rq.recipe)}
                /\ generated' = [generated EXCEPT ![rq.user] = @ + 1]
                /\ reqs' = [reqs EXCEPT ![r] = Saved(rq)]
    /\ deleted' = NoDelete
    /\ UNCHANGED <<auditEnabled, recipeGenerationLimit, recipe_limit,
                   arrived, lookupFailed, gate,
                   parserVars, mediaVars, authVars,
                   listVars, tokenVars, adminVars, clientVars>>

----------------------------------------------------------------------------
(* RecipeHandler.DeleteRecipe *)

\* DELETE FROM recipes WHERE id = ? AND user_id = ?; the items that name the
\* recipe keep their row and lose the reference (ON DELETE SET NULL, 0 here).
DeleteRecipe(u, id, execErr) ==
    LET hit == {row \in recipes : row.id = id /\ row.user_id = u}
        answer(status, events) ==
            [user |-> u, id |-> id, status |-> status,
             events |-> events \o MiddlewareEvent(status)]
    IN  /\ IF execErr
           THEN /\ deleted' = answer(StatusInternalServerError, <<>>)
                /\ UNCHANGED recipes
           ELSE IF hit = {}
           THEN /\ deleted' = answer(StatusNotFound, <<>>)
                /\ UNCHANGED recipes
           ELSE /\ deleted' = answer(StatusOK,
                        Log([Event("recipe.delete", {"recipe_id", "recipe_title"})
                             EXCEPT !.recipe_id = id]))
                /\ recipes' = recipes \ hit
        /\ items' = IF execErr THEN items
                    ELSE {IF item.recipe_id \in {row.id : row \in hit}
                          THEN [item EXCEPT !.recipe_id = 0] ELSE item :
                          item \in items}
        /\ served' = NoServed
        /\ UNCHANGED <<auditEnabled, recipeGenerationLimit, recipe_limit, reqs,
                       arrived, generated, lookupFailed, gate,
                       parserVars, mediaVars, authVars,
                       tokenVars, adminVars, clientVars>>

----------------------------------------------------------------------------
(* AdminHandler.DeleteUser *)

\* A row of the users table
UserRow(id, email, isAdmin) == [id |-> id, email |-> email, is_admin |-> isAdmin]

\* The rows of the users table, as a set
UserRows == {users[i] : i \in 1..Len(users)}

\* DELETE FROM users WHERE id = ?; the recipes, the shopping-list items and
\* the refresh tokens of the user go with the row (ON DELETE CASCADE).
DeleteUser(adminID, userID, existsErr, execErr) ==
    LET exists == \E row \in UserRows : row.id = userID
        answer(status, events) ==
            [user |-> userID, id |-> 0, status |-> status,
             events |-> events \o MiddlewareEvent(status)]
    IN  /\ IF userID = adminID
           THEN /\ deleted' = answer(StatusBadRequest, <<>>)
                /\ UNCHANGED <<users, recipes>>
           ELSE IF existsErr \/ (exists /\ execErr)
           THEN /\ deleted' = answer(StatusInternalServerError, <<>>)
                /\ UNCHANGED <<users, recipes>>
           ELSE IF ~exists
           THEN /\ deleted' = answer(StatusNotFound, <<>>)
                /\ UNCHANGED <<users, recipes>>
           ELSE /\ deleted' = answer(StatusOK,
                        Log(Event("admin.user_delete",
                                  {"deleted_user_id", "deleted_username",
                                   "deleted_email", "deleted_recipe_count",
                                   "deleted_shopping_count"})))
                /\ users' = SelectSeq(users, LAMBDA row : row.id # userID)
                /\ recipes' = {row \in recipes : row.user_id # userID}
        /\ LET done == /\ userID # adminID /\ ~existsErr /\ exists /\ ~execErr
               gone == {row.id : row \in {x \in recipes : x.user_id = userID}}
           IN  /\ items' =
                    IF ~done THEN items
                    ELSE {IF item.recipe_id \in gone
                          THEN [item EXCEPT !.recipe_id = 0] ELSE item :
                          item \in {x \in items : x.user_id # userID}}
               /\ refresh_tokens' =
                    IF ~done THEN refresh_tokens
                    ELSE {row \in refresh_tokens : row.user_id # userID}
        /\ UNCHANGED <<auditEnabled, recipeGenerationLimit, recipe_limit, reqs,
                       arrived, generated, lookupFailed, gate,
                       parserVars, mediaVars, regs, registrationEnabled,
                       served, refreshes, adminVars, clientVars>>

----------------------------------------------------------------------------
(* Configurations and stored data a run starts from *)

\* users.recipe_limit: NULL, or an integer from -1 up
NullInts == {SqlNull} \cup {NullInt64(TRUE, n) : n \in (-1)..MaxLimit}

GlobalChars == {"0", "1", "2", "-", "+", "x"}

\* RECIPE_GENERATION_LIMIT: "unlimited", or any short text
GlobalLimits ==
    {Unlimited} \cup UNION {[1..n -> GlobalChars] : n \in 0..MaxGlobalLen}

\* k rows that user u owns already; their ids are no request's id
StoredRows(u, k) ==
    { RecipeRow([NoRecipe EXCEPT !.ID = 100 + i, !.UserID = u,
                                 !.Title = "Lemon Chicken"]) : i \in 1..k }

NoGate ==
    [called |-> FALSE, user |-> "", lookupErr |-> FALSE, countErr |-> FALSE,
     allow |-> FALSE, events |-> <<>>]

\* No stand-alone parser call has been made.
NoParse ==
    [called |-> FALSE, response |-> <<>>,
     res |-> [err |-> "", panic |-> FALSE, recipe |-> NoRecipe],
     wrapped |-> FALSE, lead |-> <<>>, payload |-> <<>>, trail |-> <<>>,
     payloadRes |-> [err |-> "", panic |-> FALSE, recipe |-> NoRecipe]]

NoQuantity ==
    [called |-> FALSE, literal |-> <<>>, fromNumber |-> <<>>, fromString |-> <<>>]

\* models.RecipeGenerationRequest with all its fields
Request(meat, side, cuisine, dietary, time, difficulty, language) ==
    [MeatType |-> meat, SideIngredients |-> side, CuisineType |-> cuisine,
     DietaryPreferences |-> dietary, CookingTime |-> time,
     Difficulty |-> difficulty, Language |-> language]

\* No stand-alone call of buildRecipePrompt has been made.
NoPrompt ==
    [called |-> FALSE, req |-> Request("", <<>>, "", <<>>, "", "", ""),
     lines |-> <<>>]

InitParser ==
    /\ parseCall = NoParse
    /\ quantity = NoQuantity
    /\ classified = <<>>
    /\ prompt = NoPrompt

\* No call of the optimizer or of the cleanup service has been made.
NoImage == [width |-> 0, height |-> 0]

NoMedia ==
    [build |-> "", calls |-> 0, op |-> "none", imagePath |-> "",
     thumbnailPath |-> "", err |-> FALSE, absent |-> {}, repeated |-> FALSE,
     deletedFiles |-> <<>>, failedFiles |-> <<>>, events |-> <<>>,
     src |-> NoImage, variants |-> <<>>]

InitMedia == files = {} /\ media = NoMedia

\* The locals of a Register request that has not arrived yet
IdleReg == [pc |-> "idle", email |-> "", userCount |-> 0, isAdmin |-> FALSE,
            userID |-> "", events |-> <<>>,
            status |-> 0]

InitAuth ==
    /\ users = <<>>
    /\ regs = [r \in Reqs |-> IdleReg]
    /\ registrationEnabled = TRUE

InitList == items = {} /\ served = NoServed

\* The locals of a RefreshToken or Logout request that has not arrived yet
IdleRefresh ==
    [pc |-> "idle", op |-> "", token |-> 0, id |-> 0, user |-> "",
     status |-> 0, issued |-> 0, event |-> ""]

InitTokens == refresh_tokens = {} /\ refreshes = [r \in Reqs |-> IdleRefresh]

\* No UpdateUserRecipeLimit request has been made.
NoLimitCall ==
    [called |-> FALSE, userID |-> "", req |-> [Valid |-> FALSE, Int64 |-> 0],
     status |-> 0, events |-> <<>>]

InitAdmin == limitCall = NoLimitCall

\* The API client before its first request
IdleClient ==
    [isRefreshing |-> FALSE, failedQueue |-> <<>>, access_token |-> 0,
     refresh_token |-> FALSE, redirected |-> FALSE, awaiting |-> {},
     refreshCalls |-> 0, requests |-> <<>>]

InitClient == client = IdleClient

\* The tables and handlers that a specification does not exercise
InitRest == InitList /\ InitTokens /\ InitAdmin /\ InitClient

----------------------------------------------------------------------------
(* The server under two concurrent GenerateRecipe requests *)

Init ==
    /\ auditEnabled \in BOOLEAN
    /\ recipeGenerationLimit \in {Unlimited, <<"1">>}
    /\ recipe_limit \in {[u \in Users |-> IF u = "u1" THEN l ELSE SqlNull] :
                            l \in NullInts}
    /\ recipes = {}
    /\ reqs = [r \in Reqs |-> IdleReq]
    /\ arrived = 0
    /\ generated = [u \in Users |-> 0]
    /\ lookupFailed = FALSE
    /\ deleted = NoDelete
    /\ gate = NoGate
    /\ InitRest
    /\ InitParser /\ InitMedia /\ InitAuth

Next ==
    \/ \E r \in Reqs, u \in Users, body \in Bodies, lookupErr \in BOOLEAN :
            arrived < 2 /\ GateLimit(r, u, body, lookupErr)
    \/ \E r \in Reqs, countErr \in BOOLEAN : GateCount(r, countErr)
    \/ \E r \in Reqs, outcome \in ProviderOutcomes : TextCall(r, outcome)
    \/ \E r \in Reqs, outcome \in ImageOutcomes : ImageCall(r, outcome)
    \/ \E r \in Reqs, execErr \in BOOLEAN : InsertRecipe(r, execErr)

Spec == Init /\ [][Next]_vars

----------------------------------------------------------------------------
(* One user's sequential history of GenerateRecipe and DeleteRecipe calls *)

Quiet == \A r \in Reqs : ~InFlight(r)

RecipeIDs == 1..MaxReq

\* The user whose history it is
Caller == "u1"

InitSeq ==
    /\ auditEnabled = TRUE
    /\ recipeGenerationLimit \in {Unlimited, <<"1">>, <<"2">>}
    /\ recipe_limit \in {[u \in Users |-> IF u = Caller THEN l ELSE SqlNull] :
                            l \in NullInts}
    /\ recipes = {}
    /\ reqs = [r \in Reqs |-> IdleReq]
    /\ arrived = 0
    /\ generated = [u \in Users |-> 0]
    /\ lookupFailed = FALSE
    /\ deleted = NoDelete
    /\ gate = NoGate
    /\ InitRest
    /\ InitParser /\ InitMedia /\ InitAuth

NextSeq ==
    \/ \E r \in Reqs, body \in Bodies, lookupErr \in BOOLEAN :
            Quiet /\ arrived < MaxReq /\ GateLimit(r, Caller, body, lookupErr)
    \/ \E r \in Reqs, countErr \in BOOLEAN : GateCount(r, countErr)
    \/ \E r \in Reqs, outcome \in ProviderOutcomes : TextCall(r, outcome)
    \/ \E r \in Reqs, outcome \in ImageOutcomes : ImageCall(r, outcome)
    \/ \E r \in Reqs, execErr \in BOOLEAN : InsertRecipe(r, execErr)
    \/ \E id \in RecipeIDs, execErr \in BOOLEAN :
            Quiet /\ DeleteRecipe(Caller, id, execErr)

SpecSeq == InitSeq /\ [][NextSeq]_vars

----------------------------------------------------------------------------
(* canGenerateRecipe alone, over every limit setting and stored count *)

InitGate ==
    /\ auditEnabled \in BOOLEAN
    /\ recipeGenerationLimit \in GlobalLimits
    /\ recipe_limit \in {[u \in Users |-> IF u = Caller THEN l ELSE SqlNull] :
                            l \in NullInts}
    /\ recipes \in {StoredRows(Caller, k) : k \in 0..MaxCount}
    /\ reqs = [r \in Reqs |-> IdleReq]
    /\ arrived = 0
    /\ generated = [u \in Users |-> 0]
    /\ lookupFailed = FALSE
    /\ deleted = NoDelete
    /\ gate = NoGate
    /\ InitRest
    /\ InitParser /\ InitMedia /\ InitAuth

\* One call of canGenerateRecipe for user u; lookupErr and countErr say
\* which of its two queries fails when it is run.
GateCall(u, lookupErr, countErr) ==
    /\ ~gate.called
    /\ LET res == canGenerateRecipe(u, lookupErr, countErr)
       IN  gate' = [called |-> TRUE, user |-> u, lookupErr |-> lookupErr,
                    countErr |-> countErr, allow |-> res.allow,
                    events |-> res.events]
    /\ UNCHANGED <<auditEnabled, recipeGenerationLimit, recipe_limit, recipes,
                   reqs, arrived, generated, lookupFailed, deleted,
                   parserVars, mediaVars, authVars,
                   listVars, tokenVars, adminVars, clientVars>>

NextGate ==
    \E u \in Users, lookupErr \in BOOLEAN, countErr \in BOOLEAN :
        GateCall(u, lookupErr, countErr)

SpecGate == InitGate /\ [][NextGate]_vars

----------------------------------------------------------------------------
(* Two concurrent GenerateRecipe requests of one user with a positive limit *)

\* The user's limit is n, set per user or globally, and count rows are stored.
InitRace ==
    /\ auditEnabled = TRUE
    /\ \E n \in 1..MaxLimit :
        /\ \/ /\ recipe_limit = [u \in Users |->
                        IF u = Caller THEN NullInt64(TRUE, n) ELSE SqlNull]
              /\ recipeGenerationLimit = Unlimited
           \/ /\ n = 1
              /\ recipe_limit = [u \in Users |-> SqlNull]
              /\ recipeGenerationLimit = <<"1">>
        /\ recipes \in {StoredRows(Caller, k) : k \in 0..n}
    /\ reqs = [r \in Reqs |-> IdleReq]
    /\ arrived = 0
    /\ generated = [u \in Users |-> 0]
    /\ lookupFailed = FALSE
    /\ deleted = NoDelete
    /\ gate = NoGate
    /\ InitRest
    /\ InitParser /\ InitMedia /\ InitAuth

NextRace ==
    \/ \E r \in Reqs, body \in Bodies, lookupErr \in BOOLEAN :
            arrived < 2 /\ GateLimit(r, Caller, body, lookupErr)
    \/ \E r \in Reqs, countErr \in BOOLEAN : GateCount(r, countErr)
    \/ \E r \in Reqs, outcome \in ProviderOutcomes : TextCall(r, outcome)
    \/ \E r \in Reqs, outcome \in ImageOutcomes : ImageCall(r, outcome)
    \/ \E r \in Reqs, execErr \in BOOLEAN : InsertRecipe(r, execErr)

SpecRace == InitRace /\ [][NextRace]_vars

----------------------------------------------------------------------------
(* parseRecipeResponse and the quantity conversion alone *)

\* The longest reply text, the longest prose around a payload and the
\* longest quantity literal that are tried
MaxText == 4

MaxProse == 2

MaxQuantityLen == 3

Tokens == {"{", "}", "p"} \cup MemberTokens

Texts == UNION {[1..n -> Tokens] : n \in 0..MaxText}

\* What the provider can put before and after the payload
ProseTokens == {"p", "{", "}"}

Proses == UNION {[1..n -> ProseTokens] : n \in 0..MaxProse}

\* Payloads that hold every required member
Payloads == {<<"{", "t", "i", "s", "}">>, <<"{", "t", "i", "s", "m", "}">>}

QuantityChars == {"0", "1", "2", "5", "."}

QuantityLiterals ==
    {lit \in UNION {[1..n -> QuantityChars] : n \in 1..MaxQuantityLen} :
        ValidNumber(lit)}

\* One call of parseRecipeResponse on a reply text
ParseCall(response, req) ==
    /\ ~parseCall.called /\ ~quantity.called
    /\ parseCall' = [NoParse EXCEPT
            !.called = TRUE, !.response = response,
            !.res = parseRecipeResponse(response, req)]
    /\ UNCHANGED <<auditEnabled, recipeGenerationLimit, recipe_limit, recipes,
                   reqs, arrived, generated, lookupFailed, deleted, gate,
                   quantity, classified, prompt, mediaVars, authVars,
                   listVars, tokenVars, adminVars, clientVars>>

\* One call on a payload with prose around it, and one on the payload alone
ParseWrapped(lead, payload, trail, req) ==
    /\ ~parseCall.called /\ ~quantity.called
    /\ parseCall' = [called |-> TRUE, response |-> lead \o payload \o trail,
                     res |-> parseRecipeResponse(lead \o payload \o trail, req),
                     wrapped |-> TRUE, lead |-> lead, payload |-> payload,
                     trail |-> trail,
                     payloadRes |-> parseRecipeResponse(payload, req)]
    /\ UNCHANGED <<auditEnabled, recipeGenerationLimit, recipe_limit, recipes,
                   reqs, arrived, generated, lookupFailed, deleted, gate,
                   quantity, classified, prompt, mediaVars, authVars,
                   listVars, tokenVars, adminVars, clientVars>>

\* The quantity q of an ingredient, given as a number and given as a string
QuantityCall(lit) ==
    /\ ~parseCall.called /\ ~quantity.called
    /\ quantity' = [called |-> TRUE, literal |-> lit,
                    fromNumber |-> NormalizeQuantity(RawQuantity("number", lit)),
                    fromString |-> NormalizeQuantity(RawQuantity("string", lit))]
    /\ UNCHANGED <<auditEnabled, recipeGenerationLimit, recipe_limit, recipes,
                   reqs, arrived, generated, lookupFailed, deleted, gate,
                   parseCall, classified, prompt, mediaVars, authVars,
                   listVars, tokenVars, adminVars, clientVars>>

InitParse ==
    /\ auditEnabled = TRUE
    /\ recipeGenerationLimit = Unlimited
    /\ recipe_limit = [u \in Users |-> SqlNull]
    /\ recipes = {}
    /\ reqs = [r \in Reqs |-> IdleReq]
    /\ arrived = 0
    /\ generated = [u \in Users |-> 0]
    /\ lookupFailed = FALSE
    /\ deleted = NoDelete
    /\ gate = NoGate
    /\ InitRest
    /\ InitParser /\ InitMedia /\ InitAuth

NextParse ==
    \/ \E response \in Texts, req \in {b \in Bodies : b.valid} :
            ParseCall(response, req)
    \/ \E lead \in Proses, payload \in Payloads, trail \in Proses,
          req \in {b \in Bodies : b.valid} :
            ParseWrapped(lead, payload, trail, req)
    \/ \E lit \in QuantityLiterals : QuantityCall(lit)

SpecParse == InitParse /\ [][NextParse]_vars

----------------------------------------------------------------------------
(* ClaudeService.buildRecipePrompt *)

\* strings.Join(elems, sep)
RECURSIVE Join(_, _)
Join(elems, sep) ==
    IF elems = <<>> THEN ""
    ELSE IF Len(elems) = 1 THEN elems[1]
    ELSE elems[1] \o sep \o Join(Tail(elems), sep)

\* cookingTimeMap
cookingTimeMap ==
    [quick |-> "under 30 minutes", medium |-> "30-60 minutes",
     long |-> "over 60 minutes"]

\* Mutant of LanguagePreamble: the instructions are written for every
\* language but English.
LanguagePreamble_NotEnglish(language) ==
    IF language # "en"
    THEN <<"IMPORTANT: Generate this recipe IN SLOVAK LANGUAGE (Slovencina).",
           "All text must be in Slovak:",
           "- Recipe title in Slovak",
           "- Description in Slovak",
           "- Ingredient names in Slovak",
           "- Instructions in Slovak",
           "- Tips in Slovak",
           "">>
    ELSE <<>>

\* The language-specific instructions: if req.Language == "sk"
LanguagePreamble(language) ==
    IF language = "sk"
    THEN <<"IMPORTANT: Generate this recipe IN SLOVAK LANGUAGE (Slovencina).",
           "All text must be in Slovak:",
           "- Recipe title in Slovak",
           "- Description in Slovak",
           "- Ingredient names in Slovak",
           "- Instructions in Slovak",
           "- Tips in Slovak",
           "">>
    ELSE <<>>

\* The lines under "Requirements:", one if-statement of the source each
RequirementLines(req) ==
    (IF req.MeatType # "" /\ req.MeatType # "None (Vegetarian)"
     THEN <<"- Main protein: " \o req.MeatType>>
     ELSE <<"- Vegetarian recipe (no meat)">>)
    \o (IF req.CuisineType # ""
        THEN <<"- Cuisine style: " \o req.CuisineType>> ELSE <<>>)
    \o (IF Len(req.SideIngredients) > 0
        THEN <<"- Include these ingredients: " \o Join(req.SideIngredients, ", ")>>
        ELSE <<>>)
    \o (IF Len(req.DietaryPreferences) > 0
        THEN <<"- Dietary requirements: " \o Join(req.DietaryPreferences, ", ")>>
        ELSE <<>>)
    \o (IF req.CookingTime \in DOMAIN cookingTimeMap
        THEN <<"- Total cooking time: " \o cookingTimeMap[req.CookingTime]>>
        ELSE <<>>)
    \o (IF req.Difficulty # ""
        THEN <<"- Difficulty level: " \o req.Difficulty>> ELSE <<>>)

\* The text that follows the requirements, the same for every request; the
\* JSON example is one line here.
PromptTail ==
    <<"",
      "Please provide a recipe with:",
      "1. A creative and appetizing title",
      "2. A brief description (2-3 sentences)",
      "3. Precise ingredient list with measurements in METRIC/EUROPEAN units:",
      "   - Use grams (g) or kilograms (kg) for solid ingredients",
      "   - Use milliliters (ml) or liters (l) for liquids",
      "   - Use pieces, cloves, pinches for items like garlic, spices",
      "   - DO NOT use cups, teaspoons (tsp), tablespoons (tbsp), or ounces",
      "   - Use Celsius for all temperatures",
      "4. Detailed step-by-step cooking instructions",
      "5. Each step should include timing and temperature where relevant",
      "6. Professional cooking tips and techniques",
      "7. Serving size (number of people)",
      "",
      "IMPORTANT: Return ONLY valid JSON in this EXACT format:",
      "- serving_size, cooking_time, prep_time, step_number must be NUMBERS (not strings)",
      "- ingredient quantity must be a STRING (e.g., \"500\" not 500)",
      "- timing and temperature in steps must be STRINGS",
      "",
      "{ title, description, serving_size, cooking_time, prep_time, difficulty, ingredients, steps, tips, cuisine_type, meat_type }",
      "",
      "Generate the recipe now:">>

\* buildRecipePrompt: the prompt as the sequence of its lines
buildRecipePrompt(req) ==
    <<"You are a professional chef and recipe creator. Generate a detailed, high-quality recipe in JSON format.",
      "">>
    \o LanguagePreamble(req.Language)
    \o <<"Requirements:">>
    \o RequirementLines(req)
    \o PromptTail

\* The values of the fields of a request; "" and <<>> are an absent field
MeatTypes == {"", "Beef", "None (Vegetarian)"}
SideIngredientLists == {<<>>, <<"rice">>, <<"rice", "lime">>}
CuisineTypes == {"", "Thai"}
DietaryLists == {<<>>, <<"keto">>}
CookingTimes == {"", "quick", "medium", "long", "2h"}
Difficulties == {"", "hard"}
Languages == {"", "en", "sk", "de"}

Requests ==
    {Request(meat, side, cuisine, dietary, time, difficulty, language) :
        meat \in MeatTypes, side \in SideIngredientLists,
        cuisine \in CuisineTypes, dietary \in DietaryLists,
        time \in CookingTimes, difficulty \in Difficulties,
        language \in Languages}

\* One call of buildRecipePrompt
PromptCall(req) ==
    /\ ~prompt.called
    /\ prompt' = [called |-> TRUE, req |-> req, lines |-> buildRecipePrompt(req)]
    /\ UNCHANGED <<auditEnabled, recipeGenerationLimit, recipe_limit, recipes,
                   reqs, arrived, generated, lookupFailed, deleted, gate,
                   parseCall, quantity, classified, mediaVars, authVars,
                   listVars, tokenVars, adminVars, clientVars>>

InitPrompt == InitParse

NextPrompt == \E req \in Requests : PromptCall(req)

SpecPrompt == InitPrompt /\ [][NextPrompt]_vars

----------------------------------------------------------------------------
(* ClaudeService.GenerateRecipe alone: the classification of its errors *)

\* The number of calls that are compared
MaxClassified == 2

\* One call of ClaudeService.GenerateRecipe and the error it returns
ClassifyCall(req, outcome) ==
    /\ Len(classified) < MaxClassified
    /\ LET res == ClaudeGenerateRecipe(req, outcome)
       IN  classified' = Append(classified,
                [outcome |-> outcome, err |-> res.err, panic |-> res.panic])
    /\ UNCHANGED <<auditEnabled, recipeGenerationLimit, recipe_limit, recipes,
                   reqs, arrived, generated, lookupFailed, deleted, gate,
                   parseCall, quantity, prompt, mediaVars, authVars,
                   listVars, tokenVars, adminVars, clientVars>>

InitClassify == InitParse

NextClassify ==
    \E req \in {b \in Bodies : b.valid}, outcome \in ProviderOutcomes :
        ClassifyCall(req, outcome)

SpecClassify == InitClassify /\ [][NextClassify]_vars

----------------------------------------------------------------------------
(* The image files: ImageOptimizer and ImageCleanupService *)

\* The number of images that are created and the number of calls that are
\* made in a run
MaxImages == 2

MaxCalls == 3

ImageIDs == 1..MaxImages

\* The URL paths of the two variants of image id
FullPath(id) == "/uploads/images/full/" \o ToString(id) \o ".jpg"

ThumbPath(id) == "/uploads/images/thumbnails/" \o ToString(id) \o "_thumb.jpg"

DataURL == "data:image/png;base64"

\* imagePath != "" && !strings.HasPrefix(imagePath, "data:")
OnDisk(path) == path # "" /\ path # DataURL

\* The sizes and JPEG qualities of the two variants
FullSize == 800
FullQuality == 85
ThumbSize == 200
ThumbQuality == 75

\* A decoded image: its bounds
Image(width, height) == [width |-> width, height |-> height]

Min(a, b) == IF a < b THEN a ELSE b

\* Mutant of Fill: imaging.Fit, which scales the image down into the box
\* and keeps its aspect ratio.
Fill_Fit(img, size) ==
    LET longest == IF img.width > img.height THEN img.width ELSE img.height
        scaled(side) ==
            IF longest <= size THEN side
            ELSE IF (side * size) \div longest = 0 THEN 1
            ELSE (side * size) \div longest
    IN  [width |-> scaled(img.width), height |-> scaled(img.height),
         crop |-> [x0 |-> 0, y0 |-> 0, width |-> img.width,
                   height |-> img.height]]

\* imaging.Fill(img, size, size, imaging.Center, imaging.Lanczos): the
\* largest centred region of the image with the aspect ratio of the box,
\* scaled to the box.  crop is the region of the source that is kept.
Fill(img, size) ==
    LET side == Min(img.width, img.height)
    IN  [width |-> size, height |-> size,
         crop |-> [x0 |-> (img.width - side) \div 2,
                   y0 |-> (img.height - side) \div 2,
                   width |-> side, height |-> side]]

\* createOptimizedImage: os.Create, then jpeg.Encode into the open file
CreateOutcomes == {"ok", "create_failed", "encode_failed"}

createOptimizedImage(img, outputPath, size, quality, outcome) ==
    LET resized == Fill(img, size)
    IN  [written |->
            IF outcome = "create_failed" THEN <<>>
            ELSE <<[path |-> outputPath, width |-> resized.width,
                    height |-> resized.height, crop |-> resized.crop,
                    quality |-> quality, complete |-> outcome = "ok"]>>,
         err |-> outcome # "ok"]

\* OptimizeRecipeImage: fetched is false when the download, the decoding or
\* the creation of the directories fails; then the full-size image and then
\* the thumbnail are written.
OptimizeRecipeImage(img, imageID, fetched, fullOutcome, thumbOutcome) ==
    LET out(written, err) ==
            [written |-> written, err |-> err,
             imagePath |-> IF err THEN "" ELSE FullPath(imageID),
             thumbnailPath |-> IF err THEN "" ELSE ThumbPath(imageID)]
        full == createOptimizedImage(img, FullPath(imageID), FullSize,
                                     FullQuality, fullOutcome)
        thumb == createOptimizedImage(img, ThumbPath(imageID), ThumbSize,
                                      ThumbQuality, thumbOutcome)
    IN  IF ~fetched THEN out(<<>>, TRUE)
        ELSE IF full.err THEN out(full.written, TRUE)
        ELSE IF thumb.err THEN out(full.written \o thumb.written, TRUE)
        ELSE out(full.written \o thumb.written, FALSE)

\* The two ImageCleanupService sources of the repository
Builds == {"part_012", "part_013"}

\* os.Remove of a path, given the files that exist; fails says whether the
\* removal of an existing file fails.
Remove(existing, path, fails) ==
    IF path \notin existing THEN "not_exist"
    ELSE IF fails THEN "failed"
    ELSE "removed"

\* Whether the file goes to failedFiles and is logged as
\* recipe.image_cleanup_failed: part_012 does it on every error of
\* os.Remove, part_013 only on an error other than "does not exist".
CountsAsFailure(build, outcome) ==
    IF build = "part_012" THEN outcome # "removed"
    ELSE outcome = "failed"

\* An event of the cleanup service
MediaEvent(type, path, isNotExist) ==
    [event_type |-> type, path |-> path, is_not_exist |-> isNotExist]

\* DeleteRecipeImages: the full image, then the thumbnail, then the summary
\* event; it returns nil always.
DeleteRecipeImages(build, imagePath, thumbnailPath, fullFails, thumbFails) ==
    LET one(existing, path, fails) ==
            IF ~OnDisk(path)
            THEN [left |-> existing, deleted |-> <<>>, failed |-> <<>>,
                  events |-> <<>>]
            ELSE LET outcome == Remove(existing, path, fails)
                 IN  [left |-> IF outcome = "removed" THEN existing \ {path}
                               ELSE existing,
                      deleted |-> IF outcome = "removed" THEN <<path>> ELSE <<>>,
                      failed |-> IF CountsAsFailure(build, outcome)
                                 THEN <<path>> ELSE <<>>,
                      events |-> IF CountsAsFailure(build, outcome)
                                 THEN Log(MediaEvent("recipe.image_cleanup_failed",
                                          path, outcome = "not_exist"))
                                 ELSE <<>>]
        full == one(files, imagePath, fullFails)
        thumb == one(full.left, thumbnailPath, thumbFails)
        deletedFiles == full.deleted \o thumb.deleted
        failedFiles == full.failed \o thumb.failed
        summary ==
            IF build = "part_012"
            THEN IF failedFiles # <<>> /\ deletedFiles = <<>>
                 THEN Log(MediaEvent("recipe.image_cleanup_total_failure", "", FALSE))
                 ELSE IF deletedFiles # <<>> /\ failedFiles # <<>>
                 THEN Log(MediaEvent("recipe.image_cleanup_partial", "", FALSE))
                 ELSE IF deletedFiles # <<>>
                 THEN Log(MediaEvent("recipe.image_cleanup", "", FALSE))
                 ELSE <<>>
            ELSE IF deletedFiles # <<>>
                 THEN Log(MediaEvent("recipe.image_cleanup", "", FALSE))
                 ELSE <<>>
    IN  [left |-> thumb.left, err |-> FALSE, deletedFiles |-> deletedFiles,
         failedFiles |-> failedFiles,
         events |-> full.events \o thumb.events \o summary]

\* One call of OptimizeRecipeImage; uuid.New() gives an id not used before.
OptimizeCall(img, imageID, fetched, fullOutcome, thumbOutcome) ==
    /\ media.calls < MaxCalls
    /\ FullPath(imageID) \notin files /\ ThumbPath(imageID) \notin files
    /\ LET res == OptimizeRecipeImage(img, imageID, fetched, fullOutcome,
                                      thumbOutcome)
       IN  /\ files' = files \cup {res.written[i].path :
                                        i \in 1..Len(res.written)}
           /\ media' = [NoMedia EXCEPT
                    !.build = media.build, !.calls = media.calls + 1,
                    !.op = "optimize", !.imagePath = FullPath(imageID),
                    !.thumbnailPath = ThumbPath(imageID), !.err = res.err,
                    !.src = IF fetched THEN img ELSE NoImage,
                    !.variants = res.written]
    /\ UNCHANGED <<auditEnabled, recipeGenerationLimit, recipe_limit, recipes,
                   reqs, arrived, generated, lookupFailed, deleted, gate,
                   parserVars, authVars,
                   listVars, tokenVars, adminVars, clientVars>>

\* One call of DeleteRecipeImages on a pair of stored paths
CleanupCall(imagePath, thumbnailPath, fullFails, thumbFails) ==
    /\ media.calls < MaxCalls
    /\ LET res == DeleteRecipeImages(media.build, imagePath, thumbnailPath,
                                     fullFails, thumbFails)
       IN  /\ files' = res.left
           /\ media' = [build |-> media.build, calls |-> media.calls + 1,
                        op |-> "cleanup", imagePath |-> imagePath,
                        thumbnailPath |-> thumbnailPath, err |-> res.err,
                        absent |-> {path \in {imagePath, thumbnailPath} :
                                        OnDisk(path) /\ path \notin files},
                        repeated |-> /\ media.op = "cleanup"
                                     /\ media.imagePath = imagePath
                                     /\ media.thumbnailPath = thumbnailPath,
                        deletedFiles |-> res.deletedFiles,
                        failedFiles |-> res.failedFiles,
                        events |-> res.events,
                        src |-> NoImage, variants |-> <<>>]
    /\ UNCHANGED <<auditEnabled, recipeGenerationLimit, recipe_limit, recipes,
                   reqs, arrived, generated, lookupFailed, deleted, gate,
                   parserVars, authVars,
                   listVars, tokenVars, adminVars, clientVars>>

\* The pairs of paths a recipe can hold
StoredPairs ==
    {<<FullPath(id), ThumbPath(id)>> : id \in ImageIDs}
        \cup {<<DataURL, "">>, <<"", "">>}

InitMediaCalls ==
    /\ auditEnabled \in BOOLEAN
    /\ recipeGenerationLimit = Unlimited
    /\ recipe_limit = [u \in Users |-> SqlNull]
    /\ recipes = {}
    /\ reqs = [r \in Reqs |-> IdleReq]
    /\ arrived = 0
    /\ generated = [u \in Users |-> 0]
    /\ lookupFailed = FALSE
    /\ deleted = NoDelete
    /\ gate = NoGate
    /\ InitRest
    /\ InitParser /\ InitAuth
    /\ files = {}
    /\ media \in {[NoMedia EXCEPT !.build = b] : b \in Builds}

\* The bounds of the decoded images: square, wide and tall ones, smaller
\* and larger than the variants
SourceSides == {1, 200, 800, 1792}

SourceImages == {Image(w, h) : w \in SourceSides, h \in SourceSides}

NextMedia ==
    \/ \E img \in SourceImages, imageID \in ImageIDs, fetched \in BOOLEAN,
          fullOutcome \in CreateOutcomes, thumbOutcome \in CreateOutcomes :
            OptimizeCall(img, imageID, fetched, fullOutcome, thumbOutcome)
    \/ \E pair \in StoredPairs, fullFails \in BOOLEAN, thumbFails \in BOOLEAN :
            CleanupCall(pair[1], pair[2], fullFails, thumbFails)

SpecMedia == InitMediaCalls /\ [][NextMedia]_vars

----------------------------------------------------------------------------
(* Deleting recipes and users whose images are files *)

\* The administrator who deletes users
Admin == "u1"

\* recipes.image_path: a file written by the optimizer, a data URL, or empty
ImagePaths(id) == {FullPath(id), DataURL, ""}

\* The stored recipe of image id, owned by u, with its image at path
ImageRow(id, u, path) ==
    RecipeRow([NoRecipe EXCEPT !.ID = id, !.UserID = u,
                               !.Title = "Lemon Chicken", !.ImagePath = path])

InitCascade ==
    /\ auditEnabled \in BOOLEAN
    /\ recipeGenerationLimit = Unlimited
    /\ recipe_limit = [u \in Users |-> SqlNull]
    /\ \E owner \in [ImageIDs -> Users] :
       \E path \in {f \in [ImageIDs -> {FullPath(id) : id \in ImageIDs}
                                        \cup {DataURL, ""}] :
                        \A id \in ImageIDs : f[id] \in ImagePaths(id)} :
            /\ recipes = {ImageRow(id, owner[id], path[id]) : id \in ImageIDs}
            /\ files = UNION {IF OnDisk(path[id])
                              THEN {FullPath(id), ThumbPath(id)} ELSE {} :
                              id \in ImageIDs}
    /\ reqs = [r \in Reqs |-> IdleReq]
    /\ arrived = 0
    /\ generated = [u \in Users |-> 0]
    /\ lookupFailed = FALSE
    /\ deleted = NoDelete
    /\ gate = NoGate
    /\ InitRest
    /\ InitParser
    /\ media \in {[NoMedia EXCEPT !.build = b] : b \in Builds}
    /\ users = <<UserRow("u1", "a@x", TRUE), UserRow("u2", "b@x", FALSE)>>
    /\ regs = [r \in Reqs |-> IdleReg]
    /\ registrationEnabled = TRUE

NextCascade ==
    \/ \E u \in Users, id \in ImageIDs, execErr \in BOOLEAN :
            DeleteRecipe(u, id, execErr)
    \/ \E userID \in Users, existsErr \in BOOLEAN, execErr \in BOOLEAN :
            DeleteUser(Admin, userID, existsErr, execErr)

SpecCascade == InitCascade /\ [][NextCascade]_vars

----------------------------------------------------------------------------
(* AuthHandler.Register, under concurrent requests *)

\* The number of rows the users table comes to hold
MaxUsers == 2

Emails == {"a@x", "b@x", "c@x"}

\* A slot serves a request when it is idle or has answered its last one.
FreeReg(r) == regs[r].pc \in {"idle", "done"}

\* c.JSON(status, ...) and return
Registered(rg, status, events) ==
    [rg EXCEPT !.pc = "done", !.status = status,
               !.events = events \o MiddlewareEvent(status)]

\* uuid.New(): an identifier no other row holds
NewUserID == "id" \o ToString(Len(users) + 1)

\* The checks of the request, up to SELECT EXISTS(... WHERE email = ?)
RegisterExists(r, email, valid, existsErr) ==
    LET rg == [IdleReg EXCEPT !.email = email]
        exists == \E row \in UserRows : row.email = email
    IN  /\ FreeReg(r)
        /\ Len(users) < MaxUsers
        /\ regs' = [regs EXCEPT ![r] =
                IF ~registrationEnabled THEN Registered(rg, StatusForbidden, <<>>)
                ELSE IF ~valid THEN Registered(rg, StatusBadRequest, <<>>)
                ELSE IF existsErr
                THEN Registered(rg, StatusInternalServerError,
                                Log(Event("auth.register.failed", {"reason"})))
                ELSE IF exists
                THEN Registered(rg, StatusConflict,
                                Log(Event("auth.register.failed", {"reason"})))
                ELSE [rg EXCEPT !.pc = "count"]]
        /\ UNCHANGED <<auditEnabled, recipeGenerationLimit, recipe_limit,
                       recipes, reqs, arrived, generated, lookupFailed, deleted,
                       gate, parserVars, mediaVars, users, registrationEnabled,
                       listVars, tokenVars, adminVars, clientVars>>

\* utils.HashPassword, then SELECT COUNT(*) FROM users
RegisterCount(r, hashErr, countErr) ==
    /\ regs[r].pc = "count"
    /\ regs' = [regs EXCEPT ![r] =
            IF hashErr \/ countErr
            THEN Registered(@, StatusInternalServerError, <<>>)
            ELSE [@ EXCEPT !.pc = "insert", !.userCount = Len(users),
                           !.isAdmin = (Len(users) = 0)]]
    /\ UNCHANGED <<auditEnabled, recipeGenerationLimit, recipe_limit,
                   recipes, reqs, arrived, generated, lookupFailed, deleted,
                   gate, parserVars, mediaVars, users, registrationEnabled,
                       listVars, tokenVars, adminVars, clientVars>>

\* INSERT INTO users, which the UNIQUE constraint on email can refuse, then
\* the fetch of the row and the two tokens (lateErr: one of them fails).
RegisterInsert(r, execErr, lateErr) ==
    LET rg == regs[r]
        taken == \E row \in UserRows : row.email = rg.email
    IN  /\ rg.pc = "insert"
        /\ IF execErr \/ taken
           THEN /\ regs' = [regs EXCEPT ![r] =
                        Registered(rg, StatusInternalServerError, <<>>)]
                /\ UNCHANGED users
           ELSE /\ users' = Append(users, UserRow(NewUserID, rg.email, rg.isAdmin))
                /\ regs' = [regs EXCEPT ![r] =
                        IF lateErr
                        THEN Registered([rg EXCEPT !.userID = NewUserID],
                                        StatusInternalServerError, <<>>)
                        ELSE Registered([rg EXCEPT !.userID = NewUserID],
                                StatusCreated,
                                Log(Event("auth.register.success",
                                          {"is_first_user"})))]
        /\ UNCHANGED <<auditEnabled, recipeGenerationLimit, recipe_limit,
                       recipes, reqs, arrived, generated, lookupFailed, deleted,
                       gate, parserVars, mediaVars, registrationEnabled,
                       listVars, tokenVars, adminVars, clientVars>>

InitRegister ==
    /\ auditEnabled \in BOOLEAN
    /\ recipeGenerationLimit = Unlimited
    /\ recipe_limit = [u \in Users |-> SqlNull]
    /\ recipes = {}
    /\ reqs = [r \in Reqs |-> IdleReq]
    /\ arrived = 0
    /\ generated = [u \in Users |-> 0]
    /\ lookupFailed = FALSE
    /\ deleted = NoDelete
    /\ gate = NoGate
    /\ InitRest
    /\ InitParser /\ InitMedia
    /\ users = <<>>
    /\ regs = [r \in Reqs |-> IdleReg]
    /\ registrationEnabled \in BOOLEAN

NextRegister ==
    \/ \E r \in Reqs, email \in Emails, valid \in BOOLEAN, existsErr \in BOOLEAN :
            RegisterExists(r, email, valid, existsErr)
    \/ \E r \in Reqs, hashErr \in BOOLEAN, countErr \in BOOLEAN :
            RegisterCount(r, hashErr, countErr)
    \/ \E r \in Reqs, execErr \in BOOLEAN, lateErr \in BOOLEAN :
            RegisterInsert(r, execErr, lateErr)

SpecRegister == InitRegister /\ [][NextRegister]_vars

----------------------------------------------------------------------------
(* The recipe and shopping-list handlers of two users *)

\* The number of rows the shopping_list_items table comes to hold
MaxItems == 2

\* The recipe ids that requests name: one recipe of each user
OwnedIDs == [u1 |-> 1, u2 |-> 2]

RequestIDs == {OwnedIDs[u] : u \in Users}

ItemIDs == 1..MaxItems

\* A response of a recipe or shopping-list handler, with the rows in it
Served(op, u, id, status, rs, its, events) ==
    [op |-> op, user |-> u, id |-> id, status |-> status, recipes |-> rs,
     items |-> its, events |-> events \o MiddlewareEvent(status)]

\* Mutant of OwnRecipe: the row is looked up by its id alone.
OwnRecipe_AnyOwner(u, id) == {row \in recipes : row.id = id}

\* FROM recipes WHERE id = ? AND user_id = ?
OwnRecipe(u, id) == {row \in recipes : row.id = id /\ row.user_id = u}

\* FROM shopping_list_items WHERE id = ? AND user_id = ?
OwnItem(u, id) == {item \in items : item.id = id /\ item.user_id = u}

\* RecipeHandler.GetRecipe
GetRecipe(u, id, queryErr) ==
    /\ served' =
            IF queryErr
            THEN Served("GetRecipe", u, id, StatusInternalServerError, {}, {}, <<>>)
            ELSE IF OwnRecipe(u, id) = {}
            THEN Served("GetRecipe", u, id, StatusNotFound, {}, {}, <<>>)
            ELSE Served("GetRecipe", u, id, StatusOK, OwnRecipe(u, id), {}, <<>>)
    /\ deleted' = NoDelete
    /\ UNCHANGED <<auditEnabled, recipeGenerationLimit, recipe_limit, recipes,
                   reqs, arrived, generated, lookupFailed, gate,
                   parserVars, mediaVars, authVars, items,
                   tokenVars, adminVars, clientVars>>

\* RecipeHandler.GetPublicRecipe: no user, FROM recipes WHERE id = ?
GetPublicRecipe(id, queryErr) ==
    LET hit == {row \in recipes : row.id = id}
    IN  /\ served' =
                IF queryErr
                THEN Served("GetPublicRecipe", "", id, StatusInternalServerError,
                            {}, {}, <<>>)
                ELSE IF hit = {}
                THEN Served("GetPublicRecipe", "", id, StatusNotFound, {}, {}, <<>>)
                ELSE Served("GetPublicRecipe", "", id, StatusOK, hit, {}, <<>>)
        /\ deleted' = NoDelete
        /\ UNCHANGED <<auditEnabled, recipeGenerationLimit, recipe_limit, recipes,
                       reqs, arrived, generated, lookupFailed, gate,
                       parserVars, mediaVars, authVars, items,
                       tokenVars, adminVars, clientVars>>

\* RecipeHandler.ToggleFavorite: the UPDATE of no row is a success as well
ToggleFavorite(u, id, execErr) ==
    /\ IF execErr
       THEN /\ served' = Served("ToggleFavorite", u, id,
                                StatusInternalServerError, {}, {}, <<>>)
            /\ UNCHANGED recipes
       ELSE /\ served' = Served("ToggleFavorite", u, id, StatusOK, {}, {},
                    Log([Event("recipe.favorite_toggle",
                               {"recipe_id", "recipe_title", "new_is_favorite"})
                         EXCEPT !.recipe_id = id]))
            /\ recipes' = {IF row \in OwnRecipe(u, id)
                           THEN [row EXCEPT !.is_favorite = ~row.is_favorite]
                           ELSE row : row \in recipes}
    /\ deleted' = NoDelete
    /\ UNCHANGED <<auditEnabled, recipeGenerationLimit, recipe_limit,
                   reqs, arrived, generated, lookupFailed, gate,
                   parserVars, mediaVars, authVars, items,
                   tokenVars, adminVars, clientVars>>

\* ShoppingListHandler.GetShoppingList
GetShoppingList(u, queryErr) ==
    /\ served' =
            IF queryErr
            THEN Served("GetShoppingList", u, 0, StatusInternalServerError,
                        {}, {}, <<>>)
            ELSE Served("GetShoppingList", u, 0, StatusOK, {},
                        {item \in items : item.user_id = u}, <<>>)
    /\ deleted' = NoDelete
    /\ UNCHANGED <<auditEnabled, recipeGenerationLimit, recipe_limit, recipes,
                   reqs, arrived, generated, lookupFailed, gate,
                   parserVars, mediaVars, authVars, items,
                   tokenVars, adminVars, clientVars>>

\* The rows that the INSERTs of one request write, one per ingredient whose
\* INSERT does not fail
RECURSIVE AddedItems(_, _, _, _, _)
AddedItems(u, recipe, ingredients, failing, table) ==
    IF ingredients = <<>> THEN table
    ELSE LET n == CHOOSE k \in 1..(Cardinality(table) + 1) :
                        \A item \in table : item.id # k
             row == [id |-> n, user_id |-> u, recipe_id |-> recipe.id,
                     ingredient_name |-> Head(ingredients).Name,
                     is_checked |-> FALSE]
         IN  AddedItems(u, recipe, Tail(ingredients), failing,
                        IF Len(ingredients) \in failing THEN table
                        ELSE table \cup {row})

\* ShoppingListHandler.AddRecipeToShoppingList
AddRecipeToShoppingList(u, valid, id, queryErr, failing) ==
    LET hit == OwnRecipe(u, id)
        answer(status, events) ==
            Served("AddRecipeToShoppingList", u, id, status, {}, {}, events)
    IN  /\ IF ~valid
           THEN served' = answer(StatusBadRequest, <<>>) /\ UNCHANGED items
           ELSE IF queryErr
           THEN served' = answer(StatusInternalServerError, <<>>) /\ UNCHANGED items
           ELSE IF hit = {}
           THEN served' = answer(StatusNotFound, <<>>) /\ UNCHANGED items
           ELSE LET recipe == CHOOSE row \in hit : TRUE
                IN  /\ Cardinality(items) + Len(recipe.ingredients) <= MaxItems
                    /\ items' = AddedItems(u, recipe, recipe.ingredients,
                                           failing, items)
                    /\ served' = answer(StatusOK,
                            Log([Event("shopping.add_recipe",
                                       {"recipe_id", "recipe_title", "items_added",
                                        "total_ingredients"})
                                 EXCEPT !.recipe_id = id]))
        /\ deleted' = NoDelete
        /\ UNCHANGED <<auditEnabled, recipeGenerationLimit, recipe_limit, recipes,
                       reqs, arrived, generated, lookupFailed, gate,
                       parserVars, mediaVars, authVars,
                       tokenVars, adminVars, clientVars>>

\* ShoppingListHandler.ToggleItemChecked
ToggleItemChecked(u, id, execErr) ==
    LET answer(status) == Served("ToggleItemChecked", u, id, status, {}, {}, <<>>)
    IN  /\ IF execErr
           THEN served' = answer(StatusInternalServerError) /\ UNCHANGED items
           ELSE IF OwnItem(u, id) = {}
           THEN served' = answer(StatusNotFound) /\ UNCHANGED items
           ELSE /\ served' = answer(StatusOK)
                /\ items' = {IF item \in OwnItem(u, id)
                             THEN [item EXCEPT !.is_checked = ~item.is_checked]
                             ELSE item : item \in items}
        /\ deleted' = NoDelete
        /\ UNCHANGED <<auditEnabled, recipeGenerationLimit, recipe_limit, recipes,
                       reqs, arrived, generated, lookupFailed, gate,
                       parserVars, mediaVars, authVars,
                       tokenVars, adminVars, clientVars>>

\* ShoppingListHandler.DeleteItem
DeleteItem(u, id, execErr) ==
    LET answer(status) == Served("DeleteItem", u, id, status, {}, {}, <<>>)
    IN  /\ IF execErr
           THEN served' = answer(StatusInternalServerError) /\ UNCHANGED items
           ELSE IF OwnItem(u, id) = {}
           THEN served' = answer(StatusNotFound) /\ UNCHANGED items
           ELSE /\ served' = answer(StatusOK)
                /\ items' = items \ OwnItem(u, id)
        /\ deleted' = NoDelete
        /\ UNCHANGED <<auditEnabled, recipeGenerationLimit, recipe_limit, recipes,
                       reqs, arrived, generated, lookupFailed, gate,
                       parserVars, mediaVars, authVars,
                       tokenVars, adminVars, clientVars>>

\* ShoppingListHandler.ClearCheckedItems (checkedOnly) and ClearAllItems
ClearItems(u, checkedOnly, execErr) ==
    LET op == IF checkedOnly THEN "ClearCheckedItems" ELSE "ClearAllItems"
        gone == {item \in items :
                    item.user_id = u /\ (checkedOnly => item.is_checked)}
    IN  /\ IF execErr
           THEN /\ served' = Served(op, u, 0, StatusInternalServerError, {}, {}, <<>>)
                /\ UNCHANGED items
           ELSE /\ served' = Served(op, u, 0, StatusOK, {}, {},
                        Log(Event(IF checkedOnly THEN "shopping.clear_checked"
                                  ELSE "shopping.clear_all", {"items_deleted"})))
                /\ items' = items \ gone
        /\ deleted' = NoDelete
        /\ UNCHANGED <<auditEnabled, recipeGenerationLimit, recipe_limit, recipes,
                       reqs, arrived, generated, lookupFailed, gate,
                       parserVars, mediaVars, authVars,
                       tokenVars, adminVars, clientVars>>

\* Each user owns one stored recipe.
InitIsolation ==
    /\ auditEnabled = TRUE
    /\ recipeGenerationLimit = Unlimited
    /\ recipe_limit = [u \in Users |-> SqlNull]
    /\ recipes = {RecipeRow([Decoded(<<"{", "t", "i", "s", "m", "}">>,
                                     Body(TRUE, "", "", "", <<>>))
                             EXCEPT !.ID = OwnedIDs[u], !.UserID = u]) :
                    u \in Users}
    /\ reqs = [r \in Reqs |-> IdleReq]
    /\ arrived = 0
    /\ generated = [u \in Users |-> 0]
    /\ lookupFailed = FALSE
    /\ deleted = NoDelete
    /\ gate = NoGate
    /\ InitParser /\ InitMedia /\ InitAuth
    /\ InitList /\ InitTokens /\ InitAdmin /\ InitClient

NextIsolation ==
    \/ \E u \in Users, id \in RequestIDs, queryErr \in BOOLEAN :
            GetRecipe(u, id, queryErr)
    \/ \E id \in RequestIDs, queryErr \in BOOLEAN : GetPublicRecipe(id, queryErr)
    \/ \E u \in Users, id \in RequestIDs, execErr \in BOOLEAN :
            DeleteRecipe(u, id, execErr)
    \/ \E u \in Users, id \in RequestIDs, execErr \in BOOLEAN :
            ToggleFavorite(u, id, execErr)
    \/ \E u \in Users, queryErr \in BOOLEAN : GetShoppingList(u, queryErr)
    \/ \E u \in Users, valid \in BOOLEAN, id \in RequestIDs,
          queryErr \in BOOLEAN, failing \in SUBSET {1} :
            AddRecipeToShoppingList(u, valid, id, queryErr, failing)
    \/ \E u \in Users, id \in ItemIDs, execErr \in BOOLEAN :
            ToggleItemChecked(u, id, execErr)
    \/ \E u \in Users, id \in ItemIDs, execErr \in BOOLEAN :
            DeleteItem(u, id, execErr)
    \/ \E u \in Users, checkedOnly \in BOOLEAN, execErr \in BOOLEAN :
            ClearItems(u, checkedOnly, execErr)

SpecIsolation == InitIsolation /\ [][NextIsolation]_vars

----------------------------------------------------------------------------
(* AuthHandler.RefreshToken and AuthHandler.Logout, as concurrent requests *)

\* The refresh tokens that exist or are issued in a run; 0 is a value that
\* no row holds
MaxTokens == 4

TokenValues == 0..MaxTokens

\* A row of refresh_tokens; expired stands for expires_at lying before
\* time.Now()
TokenRow(id, userID, token, revoked, expired) ==
    [id |-> id, user_id |-> userID, token |-> token, revoked |-> revoked,
     expired |-> expired]

\* FROM refresh_tokens WHERE token = ?
TokenRecord(token) == {row \in refresh_tokens : row.token = token}

\* UPDATE refresh_tokens SET revoked = 1 WHERE id = ?
Revoke(rows, id) ==
    {IF row.id = id THEN [row EXCEPT !.revoked = TRUE] ELSE row : row \in rows}

\* utils.GenerateRefreshToken and uuid.New: values that no row holds
NewToken ==
    CHOOSE n \in 1..(Cardinality(refresh_tokens) + 1) :
        \A row \in refresh_tokens : row.token # n /\ row.id # n

\* The reply of a request
Replied(q, status, event) ==
    [q EXCEPT !.pc = "done", !.status = status, !.event = event]

\* RefreshToken, from the binding of the body to the checks of the row read
RefreshLookup(r, valid, token, queryErr) ==
    /\ refreshes[r].pc = "idle"
    /\ LET q == [refreshes[r] EXCEPT !.op = "RefreshToken", !.token = token]
           found == TokenRecord(token)
           tokenRecord == CHOOSE row \in found : TRUE
       IN  refreshes' = [refreshes EXCEPT ![r] =
                IF ~valid
                THEN Replied([q EXCEPT !.token = 0], StatusBadRequest, "")
                ELSE IF queryErr
                THEN Replied(q, StatusInternalServerError, "")
                ELSE IF found = {}
                THEN Replied(q, StatusUnauthorized,
                             IF auditEnabled THEN "auth.refresh.invalid_token"
                             ELSE "")
                ELSE IF tokenRecord.revoked
                THEN Replied(q, StatusUnauthorized,
                             IF auditEnabled THEN "auth.refresh.revoked_token"
                             ELSE "")
                ELSE IF tokenRecord.expired
                THEN Replied(q, StatusUnauthorized,
                             IF auditEnabled THEN "auth.refresh.expired_token"
                             ELSE "")
                ELSE [q EXCEPT !.pc = "revoke", !.id = tokenRecord.id,
                               !.user = tokenRecord.user_id]]
    /\ UNCHANGED <<auditEnabled, recipeGenerationLimit, recipe_limit, recipes,
                   reqs, arrived, generated, lookupFailed, deleted, gate,
                   parserVars, mediaVars, authVars, listVars, refresh_tokens,
                   adminVars, clientVars>>

\* RefreshToken: the UPDATE that revokes the row read
RefreshRevoke(r, execErr) ==
    /\ refreshes[r].pc = "revoke"
    /\ IF execErr
       THEN /\ refreshes' = [refreshes EXCEPT ![r] =
                    Replied(@, StatusInternalServerError, "")]
            /\ UNCHANGED refresh_tokens
       ELSE /\ refresh_tokens' = Revoke(refresh_tokens, refreshes[r].id)
            /\ refreshes' = [refreshes EXCEPT ![r].pc = "issue"]
    /\ UNCHANGED <<auditEnabled, recipeGenerationLimit, recipe_limit, recipes,
                   reqs, arrived, generated, lookupFailed, deleted, gate,
                   parserVars, mediaVars, authVars, listVars, adminVars,
                   clientVars>>

\* RefreshToken: the read of the user, GenerateJWT and createRefreshToken
RefreshIssue(r, userErr, jwtErr, insertErr) ==
    /\ refreshes[r].pc = "issue"
    /\ Cardinality(refresh_tokens) < MaxTokens
    /\ IF userErr
       THEN /\ refreshes' = [refreshes EXCEPT ![r] =
                    Replied(@, StatusUnauthorized, "")]
            /\ UNCHANGED refresh_tokens
       ELSE IF jwtErr \/ insertErr
       THEN /\ refreshes' = [refreshes EXCEPT ![r] =
                    Replied(@, StatusInternalServerError, "")]
            /\ UNCHANGED refresh_tokens
       ELSE /\ refresh_tokens' = refresh_tokens \cup
                    {TokenRow(NewToken, refreshes[r].user, NewToken, FALSE,
                              FALSE)}
            /\ refreshes' = [refreshes EXCEPT ![r] =
                    Replied([@ EXCEPT !.issued = NewToken], StatusOK,
                            IF auditEnabled THEN "auth.refresh.success"
                            ELSE "")]
    /\ UNCHANGED <<auditEnabled, recipeGenerationLimit, recipe_limit, recipes,
                   reqs, arrived, generated, lookupFailed, deleted, gate,
                   parserVars, mediaVars, authVars, listVars, adminVars,
                   clientVars>>

\* AuthHandler.Logout
Logout(r, valid, token, execErr) ==
    /\ refreshes[r].pc = "idle"
    /\ LET q == [refreshes[r] EXCEPT !.op = "Logout", !.token = token]
           affected == TokenRecord(token)
       IN  IF ~valid
           THEN /\ refreshes' = [refreshes EXCEPT ![r] =
                        Replied([q EXCEPT !.token = 0], StatusBadRequest, "")]
                /\ UNCHANGED refresh_tokens
           ELSE IF execErr
           THEN /\ refreshes' = [refreshes EXCEPT ![r] =
                        Replied(q, StatusInternalServerError, "")]
                /\ UNCHANGED refresh_tokens
           ELSE /\ refresh_tokens' =
                        {IF row.token = token
                         THEN [row EXCEPT !.revoked = TRUE] ELSE row :
                            row \in refresh_tokens}
                /\ refreshes' = [refreshes EXCEPT ![r] =
                        Replied(q, StatusOK,
                                IF affected # {} /\ auditEnabled
                                THEN "auth.logout.success" ELSE "")]
    /\ UNCHANGED <<auditEnabled, recipeGenerationLimit, recipe_limit, recipes,
                   reqs, arrived, generated, lookupFailed, deleted, gate,
                   parserVars, mediaVars, authVars, listVars, adminVars,
                   clientVars>>

\* Two users hold one refresh token each; the token of the second has expired.
InitRefresh ==
    /\ auditEnabled \in BOOLEAN
    /\ recipeGenerationLimit = Unlimited
    /\ recipe_limit = [u \in Users |-> SqlNull]
    /\ recipes = {}
    /\ reqs = [r \in Reqs |-> IdleReq]
    /\ arrived = 0
    /\ generated = [u \in Users |-> 0]
    /\ lookupFailed = FALSE
    /\ deleted = NoDelete
    /\ gate = NoGate
    /\ InitParser /\ InitMedia /\ InitAuth
    /\ InitList /\ InitAdmin /\ InitClient
    /\ refresh_tokens = {TokenRow(1, "u1", 1, FALSE, FALSE),
                         TokenRow(2, "u2", 2, FALSE, TRUE)}
    /\ refreshes = [r \in Reqs |-> IdleRefresh]

NextRefresh ==
    \/ \E r \in Reqs, valid \in BOOLEAN, token \in TokenValues,
          queryErr \in BOOLEAN : RefreshLookup(r, valid, token, queryErr)
    \/ \E r \in Reqs, execErr \in BOOLEAN : RefreshRevoke(r, execErr)
    \/ \E r \in Reqs, userErr \in BOOLEAN, jwtErr \in BOOLEAN,
          insertErr \in BOOLEAN : RefreshIssue(r, userErr, jwtErr, insertErr)
    \/ \E r \in Reqs, valid \in BOOLEAN, token \in TokenValues,
          execErr \in BOOLEAN : Logout(r, valid, token, execErr)

SpecRefresh == InitRefresh /\ [][NextRefresh]_vars

----------------------------------------------------------------------------
(* AdminHandler.UpdateUserRecipeLimit *)

\* The smallest recipe_limit a request body carries
MinRequested == -3

\* req.RecipeLimit: nil, or a pointer to an integer
RequestedLimits ==
    {SqlNull} \cup {NullInt64(TRUE, n) : n \in MinRequested..(MaxLimit + 1)}

\* c.Param("id"): a stored user, or an id that no row of users holds
TargetIDs == Users \cup {"u3"}

\* The validation of the body, as one that lets every integer pass
ValidLimit_Any(req) == TRUE

\* The validation of the body: nil, or an integer that is not below -1
ValidLimit(req) == ~req.Valid \/ ~(req.Int64 < -1)

\* SELECT EXISTS(SELECT 1 FROM users WHERE id = ?)
UserExists(userID) == userID \in DOMAIN recipe_limit

\* The reply of the call
LimitCall(userID, req, status, events) ==
    [called |-> TRUE, userID |-> userID, req |-> req, status |-> status,
     events |-> events]

UpdateUserRecipeLimit(userID, bound, req, existsErr, execErr) ==
    /\ IF ~bound
       THEN /\ limitCall' = LimitCall(userID, SqlNull, StatusBadRequest, <<>>)
            /\ UNCHANGED recipe_limit
       ELSE IF ~ValidLimit(req)
       THEN /\ limitCall' = LimitCall(userID, req, StatusBadRequest, <<>>)
            /\ UNCHANGED recipe_limit
       ELSE IF existsErr
       THEN /\ limitCall' =
                    LimitCall(userID, req, StatusInternalServerError, <<>>)
            /\ UNCHANGED recipe_limit
       ELSE IF ~UserExists(userID)
       THEN /\ limitCall' = LimitCall(userID, req, StatusNotFound, <<>>)
            /\ UNCHANGED recipe_limit
       ELSE IF execErr
       THEN /\ limitCall' =
                    LimitCall(userID, req, StatusInternalServerError, <<>>)
            /\ UNCHANGED recipe_limit
       ELSE /\ recipe_limit' = [recipe_limit EXCEPT ![userID] = req]
            /\ limitCall' =
                    LimitCall(userID, req, StatusOK,
                              IF auditEnabled
                              THEN <<Event("admin.user_recipe_limit_update",
                                           {"target_user_id", "old_limit",
                                            "new_limit"})>>
                              ELSE <<>>)
    /\ UNCHANGED <<auditEnabled, recipeGenerationLimit, recipes, reqs, arrived,
                   generated, lookupFailed, deleted, gate, parserVars,
                   mediaVars, authVars, listVars, tokenVars, clientVars>>

\* The column recipe_limit is added with DEFAULT NULL.
InitLimit ==
    /\ auditEnabled \in BOOLEAN
    /\ recipeGenerationLimit = Unlimited
    /\ recipe_limit = [u \in Users |-> SqlNull]
    /\ recipes = {}
    /\ reqs = [r \in Reqs |-> IdleReq]
    /\ arrived = 0
    /\ generated = [u \in Users |-> 0]
    /\ lookupFailed = FALSE
    /\ deleted = NoDelete
    /\ gate = NoGate
    /\ InitParser /\ InitMedia /\ InitAuth /\ InitRest

NextLimit ==
    \E userID \in TargetIDs, bound \in BOOLEAN, req \in RequestedLimits,
       existsErr \in BOOLEAN, execErr \in BOOLEAN :
        UpdateUserRecipeLimit(userID, bound, req, existsErr, execErr)

SpecLimit == InitLimit /\ [][NextLimit]_vars

----------------------------------------------------------------------------
(* The API client of the frontend: the response interceptor and processQueue *)

\* The requests that the pages make through the client
MaxClientReqs == 3

ClientReqs == 1..MaxClientReqs

\* A request that has not been made: its promise, the _retry mark of its
\* config, the number of times the interceptor has sent it again, and the
\* access token of its Authorization header
NewRequest == [state |-> "new", retry |-> FALSE, retries |-> 0, token |-> 0]

\* The statuses that the API answers with
Answers == {StatusOK, StatusUnauthorized, StatusInternalServerError}

\* this.client(config): the request interceptor reads the access token and
\* the request goes out.
Sent(q, again) ==
    [q EXCEPT !.state = "sent", !.token = client.access_token,
              !.retries = IF again THEN @ + 1 ELSE @]

\* clearAuthAndRedirect
clearAuthAndRedirect(c) ==
    [c EXCEPT !.access_token = 0, !.refresh_token = FALSE,
              !.redirected = TRUE]

\* processQueue: every queued promise is rejected, or is resolved and its
\* continuation sends the request again; the queue is emptied.
processQueue(c, error) ==
    [c EXCEPT !.failedQueue = <<>>,
              !.requests = [q \in DOMAIN c.requests |->
                    IF \E i \in 1..Len(c.failedQueue) : c.failedQueue[i] = q
                    THEN IF error
                         THEN [c.requests[q] EXCEPT !.state = "rejected"]
                         ELSE [c.requests[q] EXCEPT
                                    !.state = "sent",
                                    !.token = c.access_token,
                                    !.retries = @ + 1]
                    ELSE c.requests[q]]]

\* A page calls a method of the client.
Send(q) ==
    /\ client.requests[q].state = "new"
    /\ client' = [client EXCEPT !.requests[q] = Sent(@, FALSE)]
    /\ UNCHANGED <<auditEnabled, recipeGenerationLimit, recipe_limit, recipes,
                   reqs, arrived, generated, lookupFailed, deleted, gate,
                   parserVars, mediaVars, authVars, listVars, tokenVars,
                   adminVars>>

\* The interceptor queues the request when a refresh is in progress.
Queues(c) == c.isRefreshing

\* The answer to a request arrives: the response interceptor, up to its
\* first await.
Intercept(q, status) ==
    /\ client.requests[q].state = "sent"
    /\ client' =
        IF status = StatusOK
        THEN [client EXCEPT !.requests[q].state = "resolved"]
        ELSE IF status # StatusUnauthorized
        THEN [client EXCEPT !.requests[q].state = "rejected"]
        ELSE IF client.requests[q].retry
        THEN [client EXCEPT !.requests[q].state = "rejected"]
        ELSE IF Queues(client)
        THEN [client EXCEPT !.requests[q].retry = TRUE,
                            !.requests[q].state = "waiting",
                            !.failedQueue = Append(@, q)]
        ELSE IF ~client.refresh_token
        THEN [clearAuthAndRedirect(client) EXCEPT
                            !.isRefreshing = TRUE,
                            !.requests[q].retry = TRUE,
                            !.requests[q].state = "rejected"]
        ELSE [client EXCEPT !.isRefreshing = TRUE,
                            !.requests[q].retry = TRUE,
                            !.requests[q].state = "refreshing",
                            !.awaiting = @ \cup {q},
                            !.refreshCalls = @ + 1]
    /\ UNCHANGED <<auditEnabled, recipeGenerationLimit, recipe_limit, recipes,
                   reqs, arrived, generated, lookupFailed, deleted, gate,
                   parserVars, mediaVars, authVars, listVars, tokenVars,
                   adminVars>>

\* The answer of POST /api/auth/refresh arrives: the rest of the try
\* statement, its catch and its finally.
RefreshDone(q, ok) ==
    /\ q \in client.awaiting
    /\ client' =
        IF ok
        THEN LET stored == [client EXCEPT !.access_token = @ + 1,
                                          !.refresh_token = TRUE]
                 queued == processQueue(stored, FALSE)
             IN  [queued EXCEPT
                    !.requests[q] = [@ EXCEPT !.state = "sent",
                                              !.token = stored.access_token,
                                              !.retries = @ + 1],
                    !.awaiting = @ \ {q},
                    !.isRefreshing = FALSE]
        ELSE [clearAuthAndRedirect(processQueue(client, TRUE)) EXCEPT
                    !.requests[q].state = "rejected",
                    !.awaiting = @ \ {q},
                    !.isRefreshing = FALSE]
    /\ UNCHANGED <<auditEnabled, recipeGenerationLimit, recipe_limit, recipes,
                   reqs, arrived, generated, lookupFailed, deleted, gate,
                   parserVars, mediaVars, authVars, listVars, tokenVars,
                   adminVars>>

\* window.location.href = '/login' takes effect: the page is left, and the
\* promises that are not settled are never settled.
Navigate ==
    /\ client.redirected
    /\ client' =
        [IdleClient EXCEPT
            !.refreshCalls = client.refreshCalls,
            !.requests = [q \in ClientReqs |->
                IF client.requests[q].state \in
                        {"sent", "waiting", "refreshing"}
                THEN [client.requests[q] EXCEPT !.state = "dropped"]
                ELSE client.requests[q]]]
    /\ UNCHANGED <<auditEnabled, recipeGenerationLimit, recipe_limit, recipes,
                   reqs, arrived, generated, lookupFailed, deleted, gate,
                   parserVars, mediaVars, authVars, listVars, tokenVars,
                   adminVars>>

\* The page has loaded; the user is logged in or not.
InitClientRun ==
    /\ auditEnabled = TRUE
    /\ recipeGenerationLimit = Unlimited
    /\ recipe_limit = [u \in Users |-> SqlNull]
    /\ recipes = {}
    /\ reqs = [r \in Reqs |-> IdleReq]
    /\ arrived = 0
    /\ generated = [u \in Users |-> 0]
    /\ lookupFailed = FALSE
    /\ deleted = NoDelete
    /\ gate = NoGate
    /\ InitParser /\ InitMedia /\ InitAuth
    /\ InitList /\ InitTokens /\ InitAdmin
    /\ \E loggedIn \in BOOLEAN :
        client = [IdleClient EXCEPT
                    !.access_token = IF loggedIn THEN 1 ELSE 0,
                    !.refresh_token = loggedIn,
                    !.requests = [q \in ClientReqs |-> NewRequest]]

NextClient ==
    \/ \E q \in ClientReqs : Send(q)
    \/ \E q \in ClientReqs, status \in Answers : Intercept(q, status)
    \/ \E q \in ClientReqs, ok \in BOOLEAN : RefreshDone(q, ok)
    \/ Navigate

\* Every request that is out is answered, and a navigation that has been
\* started happens.
SpecClient ==
    /\ InitClientRun
    /\ [][NextClient]_vars
    /\ WF_vars(\E q \in ClientReqs, status \in Answers : Intercept(q, status))
    /\ WF_vars(\E q \in ClientReqs, ok \in BOOLEAN : RefreshDone(q, ok))
    /\ WF_vars(Navigate)

----------------------------------------------------------------------------
(* Properties of the quota gate, under SpecGate *)

\* The gate has been called and neither of its queries failed.
GateRanClean == gate.called /\ ~gate.lookupErr /\ ~gate.countErr

\* The count query of the call ran (the limit lookup neither failed nor
\* settled the verdict) and failed.
GateCountFailed ==
    /\ gate.called
    /\ ~gate.lookupErr
    /\ ~ResolveLimit(FALSE, recipe_limit[gate.user], recipeGenerationLimit).decided
    /\ gate.countErr

\* C1: with no lookup error, canGenerateRecipe returns false exactly when the
\* effective limit (the per-user value when set, otherwise the global value
\* parsed as a non-negative integer) is 0, or is positive and the count has
\* reached it; it returns true for a per-user -1, for a global "unlimited" or
\* empty value, and for a global value that is no non-negative integer.
C1_GateVerdict ==
    GateRanClean =>
        LET perUser == recipe_limit[gate.user]
            parsed == Atoi(recipeGenerationLimit)
            open == IF perUser.Valid THEN perUser.Int64 = -1
                    ELSE \/ recipeGenerationLimit = Unlimited
                         \/ recipeGenerationLimit = <<>>
                         \/ parsed.err
                         \/ parsed.val < 0
            limit == IF perUser.Valid THEN perUser.Int64 ELSE parsed.val
            count == RecipeCount(gate.user)
        IN  gate.allow = (open \/ ~(limit = 0 \/ (limit > 0 /\ count >= limit)))

\* C9: every lookup error of canGenerateRecipe (the recipe_limit lookup, the
\* count query) makes it return true and writes a log event.
C9_LookupErrorsLogged ==
    (auditEnabled /\ ((gate.called /\ gate.lookupErr) \/ GateCountFailed)) =>
        gate.allow /\ gate.events # <<>>

----------------------------------------------------------------------------
(* Properties of one GenerateRecipe request, under Spec *)

Done(r) == reqs[r].pc = "done"

\* The rows in the table that request r inserted
RowsOf(r) == {row \in recipes : row.id = reqs[r].no}

\* C2: when the quota gate denies the user, the request ends with 403 and no
\* text call, no image call and no recipe insert is made in it.
C2_DeniedStopsRequest ==
    \A r \in Reqs : reqs[r].gate = "deny" =>
        /\ Done(r)
        /\ reqs[r].status = StatusForbidden
        /\ reqs[r].textCalls = 0
        /\ reqs[r].imageCalls = 0
        /\ reqs[r].inserts = 0
        /\ RowsOf(r) = {}

C2_Witness == \E r \in Reqs : reqs[r].gate = "deny" /\ Done(r)

\* C3: when the text step fails (transport error, empty reply, invalid or
\* malformed payload, or the parser aborting) the request ends in an error
\* response with no recipe row inserted, and every row that a request
\* inserted comes from a draft that passed parsing.
C3_TextFailureWritesNothing ==
    \A r \in Reqs :
        /\ (reqs[r].textErr # "" \/ reqs[r].panicked) =>
                /\ Done(r)
                /\ reqs[r].status >= 400
                /\ reqs[r].inserts = 0
                /\ RowsOf(r) = {}
        /\ RowsOf(r) # {} =>
                /\ reqs[r].textCalls = 1
                /\ reqs[r].textErr = ""
                /\ ~reqs[r].panicked

C3_Witness ==
    \E r \in Reqs : Done(r) /\ reqs[r].textErr = "ErrParsingFailed"

\* The request succeeded with exactly its parsed draft stored and returned,
\* without an image.
StoredWithoutImage(r) ==
    /\ reqs[r].status = StatusCreated
    /\ reqs[r].error = ""
    /\ reqs[r].recipe =
            [reqs[r].draft EXCEPT !.ID = reqs[r].no, !.UserID = reqs[r].user]
    /\ reqs[r].recipe.ImagePath = ""
    /\ RowsOf(r) = {RecipeRow(reqs[r].recipe)}

SaveFailed(r) ==
    /\ reqs[r].status = StatusInternalServerError
    /\ reqs[r].error = "Failed to save recipe"
    /\ RowsOf(r) = {}

\* C4 as claimed: when the text step succeeded and the image step failed,
\* the request succeeds with exactly the parsed recipe stored and returned,
\* with empty media references.
C4_ImageFailureStillSucceeds ==
    \A r \in Reqs : (Done(r) /\ reqs[r].imageFailed) => StoredWithoutImage(r)

\* C4 as amended: ... unless the INSERT itself fails, in which case the
\* request answers 500 "Failed to save recipe" and stores nothing.
C4_ImageFailureNotFatal ==
    \A r \in Reqs :
        (Done(r) /\ reqs[r].imageFailed) => StoredWithoutImage(r) \/ SaveFailed(r)

C4_Witness ==
    \E r \in Reqs : Done(r) /\ reqs[r].imageFailed /\ StoredWithoutImage(r)

\* C5: a request that answers 201 has inserted exactly one row, and the
\* recipe it returns carries the id and owner of that row; a request that
\* answers an error has inserted nothing.
C5_OneInsertPerSuccess ==
    \A r \in Reqs : Done(r) =>
        IF reqs[r].status = StatusCreated
        THEN /\ reqs[r].inserts = 1
             /\ Cardinality(RowsOf(r)) = 1
             /\ \A row \in RowsOf(r) :
                    /\ row.id = reqs[r].recipe.ID
                    /\ row.user_id = reqs[r].recipe.UserID
                    /\ row.user_id = reqs[r].user
        ELSE /\ reqs[r].inserts = 0
             /\ RowsOf(r) = {}

C5_Witness ==
    \E r \in Reqs, q \in Reqs :
        /\ Done(r) /\ reqs[r].status = StatusCreated
        /\ Done(q) /\ SaveFailed(q)

\* The events of request r that report how it ended
OutcomeEvents(r) ==
    SelectSeq(reqs[r].events,
              LAMBDA e : e.event_type \in
                    {"recipe.generate_success", "recipe.generate_failure",
                     "recipe.limit_blocked", "recipe.limit_reached"})

ConstraintKeys == {"meat_type", "cuisine_type", "difficulty"}

\* The terminal outcomes the claim names
Outcome(r) ==
    IF reqs[r].gate = "deny" THEN "quota-denied"
    ELSE IF reqs[r].status = StatusCreated THEN "success"
    ELSE IF reqs[r].panicked
              \/ reqs[r].textErr \in {"ErrInvalidJSON", "ErrParsingFailed"}
    THEN "parse-failed"
    ELSE IF reqs[r].textErr # "" THEN "provider-error"
    ELSE "other"

----------------------------------------------------------------------------
(* Properties of a user's sequential history, under SpecSeq *)

\* The caller's limit as the gate resolves it
CallerLimit == EffectiveLimit(recipe_limit[Caller], recipeGenerationLimit)

PositiveLimit == ~CallerLimit.unlimited /\ CallerLimit.effectiveLimit > 0

\* The rows the caller owns
Owned == {row \in recipes : row.user_id = Caller}

\* The number of further calls the gate admits if each of them succeeds
Remaining ==
    IF CallerLimit.effectiveLimit > Cardinality(Owned)
    THEN CallerLimit.effectiveLimit - Cardinality(Owned)
    ELSE 0

Finishes(r) ==
    /\ reqs'[r].pc = "done"
    /\ reqs[r].pc # "done" \/ reqs'[r].no # reqs[r].no

----------------------------------------------------------------------------
(* Properties of two concurrent requests, under SpecRace *)

\* The rows stored before the two requests
InitialRows == {row \in recipes : row.id > 100}

\* The limit the race runs under
RaceLimit ==
    IF recipe_limit[Caller].Valid THEN recipe_limit[Caller].Int64 ELSE 1

\* C8: the check and the insert are not atomic: two concurrent requests of a
\* user who holds limit-1 recipes can both pass the check and both insert,
\* leaving limit+1 recipes; with two requests the count never exceeds
\* limit+1 from that start, nor from any stored count within the limit as
\* long as no lookup of the gate fails.
C8_AtMostOneOver ==
    /\ Cardinality(InitialRows) = RaceLimit - 1 =>
            Cardinality(Owned) <= RaceLimit + 1
    /\ ~lookupFailed => Cardinality(Owned) <= RaceLimit + 1

C8_Witness ==
    /\ ~lookupFailed
    /\ Cardinality(InitialRows) = RaceLimit - 1
    /\ \A r \in Reqs : Done(r) /\ reqs[r].status = StatusCreated
    /\ Cardinality(Owned) = RaceLimit + 1

----------------------------------------------------------------------------
(* Properties of what GenerateRecipe answers and of the reply parser *)

\* The classes of error that ClaudeService.GenerateRecipe returns
ErrorClasses ==
    {"ErrRateLimit", "ErrEmptyResponse", "ErrInvalidJSON", "ErrParsingFailed",
     "ErrAPIConnection"}

\* Every message that the handler writes in an error body
CategoryMessages ==
    {ErrorMessage(e) : e \in ErrorClasses \cup {"unclassified"}}
        \cup {"Recipe generation limit reached", "Invalid request data",
              "Failed to save recipe"}

\* A recipe whose textual part is there
CompleteRecipe(recipe) ==
    recipe.Title # "" /\ recipe.Ingredients # <<>> /\ recipe.Steps # <<>>

\* C11: every response of GenerateRecipe is a complete recipe or an error
\* whose message is one of the fixed category messages, chosen by the class
\* of the error only; the provider's own error text is never in the body, and
\* two failures of one class answer alike whatever their error texts.
C11_RecipeOrCategoryError ==
    \A r \in Reqs : Done(r) =>
        IF reqs[r].status = StatusCreated
        THEN reqs[r].error = "" /\ CompleteRecipe(reqs[r].recipe)
        ELSE /\ reqs[r].error \in CategoryMessages
             /\ reqs[r].error \notin ProviderErrors
             /\ reqs[r].textErr # "" =>
                    /\ reqs[r].error = ErrorMessage(reqs[r].textErr)
                    /\ reqs[r].status = ErrorStatus(reqs[r].textErr)
             /\ \A q \in Reqs :
                    (Done(q) /\ reqs[q].textErr = reqs[r].textErr
                        /\ reqs[r].textErr # "") =>
                            /\ reqs[q].error = reqs[r].error
                            /\ reqs[q].status = reqs[r].status

\* The text holds the character c.
Holds(text, c) == \E i \in 1..Len(text) : text[i] = c

\* What decoding the text yields, as a result of the parser
DecodeResult(jsonStr, req) ==
    IF DecodeOK(jsonStr)
    THEN [err |-> "", panic |-> FALSE, recipe |-> Decoded(jsonStr, req)]
    ELSE [err |-> "failed to parse JSON", panic |-> FALSE, recipe |-> NoRecipe]

\* C12: parseRecipeResponse fails with ErrInvalidJSON exactly when the text
\* holds no "{" or no "}"; in every other case it decodes the substring from
\* the first "{" to the last "}" inclusive.
C12_IsolatesPayload ==
    (parseCall.called /\ ~parseCall.wrapped) =>
        LET text == parseCall.response
            missing == ~Holds(text, "{") \/ ~Holds(text, "}")
        IN  /\ (parseCall.res.err = "ErrInvalidJSON") <=> missing
            /\ ~missing =>
                    \E req \in Bodies :
                        parseCall.res =
                            DecodeResult(SubSeq(text, Index(text, "{") + 1,
                                                LastIndex(text, "}") + 1), req)

\* The payload is one brace-delimited object that lacks a required member.
LacksRequired(text) ==
    /\ DecodeOK(text)
    /\ ~Holds(text, "t") \/ ~Holds(text, "i") \/ ~Holds(text, "s")

\* C13: on a brace-delimited payload that lacks a required member (title,
\* ingredients or steps) parseRecipeResponse fails with the parsing error,
\* not ErrInvalidJSON, and returns no draft.
C13_RejectsMissingFields ==
    (parseCall.called /\ ~parseCall.wrapped /\ LacksRequired(parseCall.response)) =>
        /\ parseCall.res.err = "failed to parse JSON"
        /\ parseCall.res.recipe = NoRecipe

\* C14: no recipe with an empty ingredient list or an empty step list comes
\* out of the text step of GenerateRecipe or is stored in the recipes table.
C14_NoEmptyLists ==
    /\ \A row \in recipes : row.ingredients # <<>> /\ row.steps # <<>>
    /\ \A r \in Reqs :
            reqs[r].pc \in {"image", "insert"} \/ reqs[r].status = StatusCreated =>
                reqs[r].recipe.Ingredients # <<>> /\ reqs[r].recipe.Steps # <<>>

\* C15 as claimed: for every well-formed payload P and every prose L and T,
\* parseRecipeResponse(L + P + T) succeeds with the draft of
\* parseRecipeResponse(P).
C15_ProseIgnored ==
    (parseCall.called /\ parseCall.wrapped) =>
        /\ parseCall.res.err = ""
        /\ ~parseCall.res.panic
        /\ parseCall.res = parseCall.payloadRes

\* C15 as amended: ... for every prose L that holds no "{" and every prose T
\* that holds no "}".
C15_BraceFreeProseIgnored ==
    (parseCall.called /\ parseCall.wrapped
        /\ ~Holds(parseCall.lead, "{") /\ ~Holds(parseCall.trail, "}")) =>
            /\ parseCall.res.err = ""
            /\ ~parseCall.res.panic
            /\ parseCall.res = parseCall.payloadRes
            /\ CompleteRecipe(parseCall.res.recipe)

C15_Witness ==
    /\ parseCall.called /\ parseCall.wrapped
    /\ Holds(parseCall.lead, "p") /\ Holds(parseCall.lead, "}")
    /\ Holds(parseCall.trail, "p") /\ Holds(parseCall.trail, "{")
    /\ parseCall.res.err = ""
    /\ parseCall.res = parseCall.payloadRes

\* C16: a quantity q given as a number and given as a string yield the same
\* Ingredient quantity, which is the string form of q with no digit lost.
C16_QuantityForms ==
    quantity.called =>
        /\ quantity.fromNumber = quantity.fromString
        /\ quantity.fromNumber = quantity.literal

----------------------------------------------------------------------------
(* Properties of the image files, under SpecMedia *)

\* C17: whenever OptimizeRecipeImage or DeleteRecipeImages has returned, the
\* full-size file of an image exists if and only if its thumbnail exists.
C17_VariantsTogether ==
    media.op \in {"optimize", "cleanup"} =>
        \A id \in ImageIDs : (FullPath(id) \in files) <=> (ThumbPath(id) \in files)

\* The events that report a failed cleanup
FailureEvents ==
    SelectSeq(media.events,
              LAMBDA e : e.event_type \in
                    {"recipe.image_cleanup_failed",
                     "recipe.image_cleanup_total_failure",
                     "recipe.image_cleanup_partial"})

\* The call found none of the files of its pair: each of them was absent.
AllAbsent ==
    /\ media.absent # {}
    /\ media.absent = {path \in {media.imagePath, media.thumbnailPath} : OnDisk(path)}

\* C18: a second call of DeleteRecipeImages on the same pair of
\* paths returns no error, and the files that are absent already are not
\* among the failed files and are not logged as a cleanup failure.
C18_AbsentFilesBenign ==
    (media.op = "cleanup" /\ media.repeated) =>
        /\ ~media.err
        /\ \A path \in media.absent :
                /\ \A i \in 1..Len(media.failedFiles) : media.failedFiles[i] # path
                /\ \A i \in 1..Len(media.events) : media.events[i].path # path
        /\ AllAbsent => FailureEvents = <<>>

----------------------------------------------------------------------------
(* Properties of deletion, under SpecCascade *)

\* C19: when DeleteRecipe or DeleteUser succeeds, the media cleanup is
\* invoked on the image files of every recipe that the deletion removes:
\* each of the files is gone or is among the failed files of the call.
C19_DeletionCascadesToMedia ==
    [][(deleted' # deleted /\ deleted'.status = StatusOK) =>
            \A row \in recipes \ recipes' :
                OnDisk(row.image_path) =>
                    /\ media'.op = "cleanup"
                    /\ media'.calls > media.calls
                    /\ \/ row.image_path \notin files'
                       \/ \E i \in 1..Len(media'.failedFiles) :
                            media'.failedFiles[i] = row.image_path]_vars

----------------------------------------------------------------------------
(* Properties of registration, under SpecRegister *)

\* C20: the first registered user, and only that user, is an administrator,
\* whatever the interleaving of concurrent Register requests.
C20_OnlyFirstUserIsAdmin ==
    \A i \in 1..Len(users) : users[i].is_admin <=> (i = 1)

----------------------------------------------------------------------------
(* Properties of the image optimizer, under SpecMedia *)

\* The largest centred square of an image
CentreSquare(img) ==
    LET side == IF img.width < img.height THEN img.width ELSE img.height
    IN  [x0 |-> (img.width - side) \div 2, y0 |-> (img.height - side) \div 2,
         width |-> side, height |-> side]

\* C21: when OptimizeRecipeImage has returned without an error for a decoded
\* image of any aspect ratio, it has written a full variant of exactly
\* 800x800 pixels at JPEG quality 85 and a thumbnail of exactly 200x200
\* pixels at JPEG quality 75, each the centre crop of the image scaled, both
\* under one identifier, the thumbnail with the _thumb suffix.
C21_VariantsNormalized ==
    (media.op = "optimize" /\ ~media.err) =>
        /\ Len(media.variants) = 2
        /\ \E id \in ImageIDs :
            /\ media.variants[1].path =
                    "/uploads/images/full/" \o ToString(id) \o ".jpg"
            /\ media.variants[2].path =
                    "/uploads/images/thumbnails/" \o ToString(id) \o "_thumb.jpg"
        /\ media.variants[1].width = 800 /\ media.variants[1].height = 800
        /\ media.variants[1].quality = 85
        /\ media.variants[2].width = 200 /\ media.variants[2].height = 200
        /\ media.variants[2].quality = 75
        /\ \A i \in 1..2 :
            /\ media.variants[i].crop = CentreSquare(media.src)
            /\ media.variants[i].complete
            /\ media.variants[i].path \in files

C21_Witness ==
    /\ media.op = "optimize" /\ ~media.err
    /\ media.src.width > media.src.height
    /\ Len(media.variants) = 2

----------------------------------------------------------------------------
(* Properties of the order of the stages, under Spec *)

\* The stages of request r run in order: the text call only after the gate
\* allowed it and the body was bound, the image call only after one text
\* call whose reply was parsed, the insert only after one image call.
StagesOrdered(r) ==
    /\ reqs[r].textCalls <= 1 /\ reqs[r].imageCalls <= 1 /\ reqs[r].inserts <= 1
    /\ reqs[r].textCalls > 0 => (reqs[r].gate = "allow" /\ reqs[r].body.valid)
    /\ reqs[r].pc = "text" => reqs[r].textCalls = 0
    /\ reqs[r].imageCalls > 0 =>
            /\ reqs[r].textCalls = 1
            /\ reqs[r].textErr = "" /\ ~reqs[r].panicked
    /\ reqs[r].pc = "image" => (reqs[r].textCalls = 1 /\ reqs[r].imageCalls = 0)
    /\ reqs[r].inserts > 0 => reqs[r].imageCalls = 1
    /\ RowsOf(r) # {} => reqs[r].inserts = 1

\* The image that request r obtained went through the Image Normalizer
\* before the insert: the stored path is the full variant of an optimized
\* image whose file exists.
Normalized(r) ==
    \A row \in RowsOf(r) :
        row.image_path # "" =>
            /\ \E id \in ImageIDs : row.image_path = FullPath(id)
            /\ row.image_path \in files

\* C22: within one GenerateRecipe request the stages run in the order gate,
\* prompt, text call, parsing, image call, image normalization, insert; the
\* image call comes only after parsing succeeded, the normalizer runs on the
\* image before the insert, the insert comes only after the image step, and
\* the text and image calls of a request are never in flight together.
C22_StagesInOrder ==
    \A r \in Reqs : StagesOrdered(r) /\ Normalized(r)

----------------------------------------------------------------------------
(* Properties of the classification of errors, under SpecClassify *)

\* The error kind the specification gives to the outcome of a provider call:
\* the signals of a transport error are checked in the order rate limit,
\* model; a reply without text is an empty reply.
SpecErrorKind(outcome) ==
    IF outcome.failed
    THEN IF outcome.rate THEN "RateLimitError"
         ELSE IF outcome.model THEN "ProviderConfigError"
         ELSE "ProviderConnectionError"
    ELSE IF outcome.text = <<>> THEN "EmptyReplyError"
    ELSE "none"

\* C23: a transport error of the text provider gets exactly one of three
\* distinct error kinds, the rate-limit signal first, then the model signal,
\* then the connection error, and a reply without text gets a fourth one:
\* two calls return the same error exactly when their kinds are the same.
C23_DistinctErrorKinds ==
    \A i, j \in 1..Len(classified) :
        LET a == classified[i]
            b == classified[j]
        IN  (SpecErrorKind(a.outcome) # "none" /\ SpecErrorKind(b.outcome) # "none") =>
                /\ a.err # "" /\ ~a.panic
                /\ (a.err = b.err) <=>
                        (SpecErrorKind(a.outcome) = SpecErrorKind(b.outcome))

----------------------------------------------------------------------------
(* Properties of the prompt, under SpecPrompt *)

\* The prompt holds one of the lines
HasLine(lines) == \E i \in 1..Len(prompt.lines) : prompt.lines[i] \in lines

\* The lines that state a constraint, per field of the request
MeatLines ==
    {"- Vegetarian recipe (no meat)"}
        \cup {"- Main protein: " \o meat : meat \in MeatTypes}

CuisineLines == {"- Cuisine style: " \o cuisine : cuisine \in CuisineTypes}

SideLines ==
    {"- Include these ingredients: rice",
     "- Include these ingredients: rice, lime",
     "- Include these ingredients: "}

DietaryLines == {"- Dietary requirements: keto", "- Dietary requirements: "}

TimeLines ==
    {"- Total cooking time: under 30 minutes",
     "- Total cooking time: 30-60 minutes",
     "- Total cooking time: over 60 minutes"}
        \cup {"- Total cooking time: " \o time : time \in CookingTimes}

DifficultyLines ==
    {"- Difficulty level: " \o difficulty : difficulty \in Difficulties}

\* C24: buildRecipePrompt emits a constraint line for a field of the request
\* if and only if the field is populated: an absent field gets no line and
\* no default in its place, a populated field is never dropped.
C24_LineIffPopulated ==
    prompt.called =>
        /\ HasLine(MeatLines) <=> (prompt.req.MeatType # "")
        /\ HasLine(CuisineLines) <=> (prompt.req.CuisineType # "")
        /\ HasLine(SideLines) <=> (prompt.req.SideIngredients # <<>>)
        /\ HasLine(DietaryLines) <=> (prompt.req.DietaryPreferences # <<>>)
        /\ HasLine(TimeLines) <=> (prompt.req.CookingTime # "")
        /\ HasLine(DifficultyLines) <=> (prompt.req.Difficulty # "")

\* The line that opens the language instructions
PreambleLines ==
    {"IMPORTANT: Generate this recipe IN SLOVAK LANGUAGE (Slovencina)."}

\* C25 as claimed: the language preamble is in the prompt of every request
\* whose language is not "en", and is left out exactly when it is "en".
C25_PreambleUnlessEnglish ==
    prompt.called => (HasLine(PreambleLines) <=> (prompt.req.Language # "en"))

\* C25 as amended: the language preamble, which asks for a reply in Slovak,
\* is in the prompt exactly when the language of the request is "sk"; every
\* other language, "en" and the absent one included, gets no preamble.
C25_PreambleIffSlovak ==
    prompt.called => (HasLine(PreambleLines) <=> (prompt.req.Language = "sk"))

C25_Witness ==
    /\ prompt.called
    /\ prompt.req.Language = "de"
    /\ ~HasLine(PreambleLines)

----------------------------------------------------------------------------
(* Totality of the parser, under SpecParse *)

\* C26: parseRecipeResponse is total: for every text, the texts whose last
\* "}" comes before their first "{" included, it returns a recipe draft or
\* an error value and never aborts.
C26_ParserTotal ==
    parseCall.called =>
        /\ ~parseCall.res.panic
        /\ (parseCall.res.err = "") <=> (parseCall.res.recipe # NoRecipe)

----------------------------------------------------------------------------
(* Isolation of the users, under SpecIsolation *)

\* The user whose request a step serves
StepCaller == IF deleted' # NoDelete THEN deleted'.user ELSE served'.user

\* C27: recipes and shopping-list items are isolated per owner: a call of
\* GetRecipe, DeleteRecipe, ToggleFavorite, AddRecipeToShoppingList,
\* ToggleItemChecked, DeleteItem or a Clear* by one user returns, modifies
\* and deletes no row of another user; only the shared-recipe endpoint
\* returns the recipe of a user to someone else.
C27_OwnerIsolation ==
    [][/\ \A row \in recipes \cup recipes' :
            row.user_id # StepCaller => (row \in recipes /\ row \in recipes')
       /\ \A item \in items \cup items' :
            item.user_id # StepCaller => (item \in items /\ item \in items')
       /\ served'.op # "GetPublicRecipe" =>
            /\ \A row \in served'.recipes : row.user_id = served'.user
            /\ \A item \in served'.items : item.user_id = served'.user]_vars

C27_Witness ==
    /\ served.op = "GetRecipe"
    /\ served.status = StatusNotFound
    /\ \E row \in recipes : row.id = served.id /\ row.user_id # served.user
    /\ \E item \in items : item.user_id # served.user

----------------------------------------------------------------------------
(* Rotation of the refresh tokens, under SpecRefresh *)

\* The requests whose RefreshToken call on the token was answered 200
Refreshed(token) ==
    {r \in Reqs : /\ refreshes[r].op = "RefreshToken"
                  /\ refreshes[r].token = token
                  /\ refreshes[r].status = StatusOK}

\* C28: refresh tokens are single-use under any interleaving of RefreshToken
\* and Logout requests, two concurrent RefreshToken requests that present the
\* same token included: at most one refresh of a token succeeds.
C28_SingleUse ==
    \A token \in TokenValues : Cardinality(Refreshed(token)) <= 1

----------------------------------------------------------------------------
(* The stored limits, under SpecLimit *)

\* NULL, -1, 0 or a positive number
SentinelShape(limit) == ~limit.Valid \/ limit.Int64 >= -1

\* C29: after any sequence of UpdateUserRecipeLimit calls every stored
\* recipe_limit is NULL or an integer that is at least -1, and a call with a
\* value below -1 or for an unknown user is rejected and changes no stored
\* limit.
C29_StoredLimitsValid ==
    /\ [](\A u \in Users : SentinelShape(recipe_limit[u]))
    /\ [][((limitCall'.req.Valid /\ limitCall'.req.Int64 < -1)
              \/ limitCall'.userID \notin Users) =>
            /\ limitCall'.status \in {StatusBadRequest, StatusNotFound,
                                      StatusInternalServerError}
            /\ recipe_limit' = recipe_limit]_vars

\* A value below -1 has been rejected while a limit of another shape is stored.
C29_Witness ==
    /\ limitCall.called
    /\ limitCall.req.Valid /\ limitCall.req.Int64 < -1
    /\ limitCall.status = StatusBadRequest
    /\ \E u \in Users : recipe_limit[u] = NullInt64(TRUE, -1)
    /\ \E u \in Users : recipe_limit[u].Valid /\ recipe_limit[u].Int64 > 0

----------------------------------------------------------------------------
(* The token refresh of the API client, under SpecClient *)

\* C30: the token refresh of the API client is single-flight: the refresh
\* endpoint is called at most once while a refresh is in progress, no request
\* is sent again more than once, and every request that waits for a refresh
\* is eventually sent again or rejected.
C30_SingleFlight ==
    /\ [](Cardinality(client.awaiting) <= 1)
    /\ [](\A q \in DOMAIN client.requests : client.requests[q].retries <= 1)
    /\ \A q \in ClientReqs :
        (client.requests[q].state = "waiting") ~>
            (\/ client.requests[q].retries = 1
             \/ client.requests[q].state = "rejected")

====
